---- MODULE Spec2Model ----
(***************************************************************************)
(* A model of EasySwitch: the dispatcher (easyswitch/client.py) that       *)
(* builds one adapter per configured provider and routes the public        *)
(* operations, and the provider adapters of easyswitch/integrators.        *)
(*                                                                         *)
(* Exceptions are modelled by the name of their class.  A call either      *)
(* returns a value or raises; both are recorded in the state so that the   *)
(* properties below can speak about them.                                  *)
(***************************************************************************)
EXTENDS Integers, Sequences, FiniteSets, TLC

VARIABLES
    config,        \* the RootConfig object, which _validate_providers may write
    given,         \* that object as it was when EasySwitch(config) was last called
    ctorDid,       \* what each adapter constructor did in that call
    constructed,   \* TRUE iff EasySwitch(config) returned a client object
    integrators,   \* EasySwitch._integrators of that client
    ctorRaised,    \* what the last EasySwitch(config) raised (kind None: nothing)
    ctorCalls,     \* the adapter constructors the last EasySwitch(config) called
    call,          \* the last public operation called on the client
    now,           \* datetime.now(), in seconds
    airtelConfig,  \* the config of the Airtel adapter: are client_id and
                   \* client_secret attributes of it
    accessToken,   \* AirtelMoneyAdapter._access_token
    tokenExpiry,   \* AirtelMoneyAdapter._token_expiry
    adapterCall,   \* the last operation called on an adapter directly
    callers,       \* the concurrent calls of _get_access_token on the Airtel
                   \* adapter: where each is, and what it read and did
    writtenBy,     \* which refresh wrote _access_token and _token_expiry
    inFlight,      \* the concurrent calls of HTTPClient._make_request: where
                   \* each is, and what aiohttp did for it
    sessions       \* the calls whose aiohttp.ClientSession is open

dispatcherVars == <<config, given, ctorDid, constructed, integrators,
                    ctorRaised, ctorCalls, call>>

adapterVars == <<now, airtelConfig, accessToken, tokenExpiry, adapterCall>>

tokenVars == <<callers, writtenBy>>

httpVars == <<inFlight, sessions>>

vars == <<dispatcherVars, adapterVars, tokenVars, httpVars>>

None == "None"

\* ------------------------------------------------------------------------
\* Bounds of the model
\* ------------------------------------------------------------------------

\* the largest number of entries of config.providers
MaxProviders == 2

\* how far the clock moves in one step, and how far it moves at all
ClockStep == 3600

MaxNow == 3600

\* how many calls of _get_access_token run at once, and how many requests
\* for a token they send in all
MaxCallers == 3

MaxRefreshes == 3

\* how many calls of HTTPClient._make_request run at once
MaxRequests == 3

\* the keys a configuration may use: two providers with an adapter, one
\* member of Provider without an adapter, and one name Provider does not have
ProviderNames == {"SEMOA", "FEDAPAY", "PAYGATE", "PAYSTACK"}

\* ------------------------------------------------------------------------
\* Types
\* ------------------------------------------------------------------------

Provider == {"SEMOA", "BIZAO", "CINETPAY", "PAYGATE", "FEDAPAY"}

\* the classes of exceptions.py that are no ValueError, beside the builtins
IsValueError(kind) == kind = "ValueError"

NoError == [kind |-> None, provider |-> None]

EmptyMap == [p \in {} |-> None]

\* the sequences of distinct names of length n
RECURSIVE DistinctSeqs(_, _)
DistinctSeqs(S, n) ==
    IF n = 0 THEN {<<>>}
    ELSE UNION {{Append(s, x) : x \in S \ {s[i] : i \in 1..Len(s)}} :
                s \in DistinctSeqs(S, n - 1)}

\* a RootConfig, as far as the dispatcher reads it: the keys of the providers
\* mapping in iteration order, and default_provider
RootConfig ==
    [providers : UNION {DistinctSeqs(ProviderNames, n) : n \in 0..MaxProviders},
     default_provider : ProviderNames \cup {None}]

Keys(cfg) == {cfg.providers[i] : i \in 1..Len(cfg.providers)}

\* ------------------------------------------------------------------------
\* Adapter registry
\* ------------------------------------------------------------------------

\* The process-wide mapping from provider to adapter class, for the members
\* of Provider: FedapayAdapter registers itself; SemoaAdapter does not, and is
\* here registered under SEMOA by the application.
AdaptersRegistry == [SEMOA |-> "SemoaAdapter", FEDAPAY |-> "FedapayAdapter"]

\* AdaptersRegistry.get(provider): the class, or "invalid provider"
RegistryGet(provider) ==
    IF provider \in DOMAIN AdaptersRegistry
    THEN [raised |-> None, class |-> AdaptersRegistry[provider]]
    ELSE [raised |-> "InvalidProviderError", class |-> None]

\* what an adapter constructor may do with a provider config: return the
\* adapter, raise a ValueError, raise another exception
CtorOutcomes == {"ok", "ValueError", "Exception"}

CtorBehaviours == [DOMAIN AdaptersRegistry -> CtorOutcomes]

\* ------------------------------------------------------------------------
\* EasySwitch construction
\* ------------------------------------------------------------------------

\* _validate_providers without its check for an empty providers mapping
ValidateProvidersAcceptsEmpty(cfg) ==
    IF cfg.default_provider # None
    THEN IF cfg.default_provider \notin Keys(cfg)
         THEN [raised |-> [kind |-> "ConfigurationError",
                           provider |-> cfg.default_provider],
               default_provider |-> cfg.default_provider]
         ELSE [raised |-> NoError, default_provider |-> cfg.default_provider]
    ELSE [raised |-> NoError,
          default_provider |-> IF Len(cfg.providers) = 0 THEN None
                               ELSE cfg.providers[1]]

\* _validate_providers without its check that the default is configured
ValidateProvidersAcceptsDefault(cfg) ==
    IF Len(cfg.providers) = 0
    THEN [raised |-> [kind |-> "ConfigurationError", provider |-> None],
          default_provider |-> cfg.default_provider]
    ELSE IF cfg.default_provider # None
    THEN [raised |-> NoError, default_provider |-> cfg.default_provider]
    ELSE [raised |-> NoError, default_provider |-> cfg.providers[1]]

\* _validate_providers taking the last configured provider as the default
ValidateProvidersLastKey(cfg) ==
    IF Len(cfg.providers) = 0
    THEN [raised |-> [kind |-> "ConfigurationError", provider |-> None],
          default_provider |-> cfg.default_provider]
    ELSE IF cfg.default_provider # None
    THEN IF cfg.default_provider \notin Keys(cfg)
         THEN [raised |-> [kind |-> "ConfigurationError",
                           provider |-> cfg.default_provider],
               default_provider |-> cfg.default_provider]
         ELSE [raised |-> NoError, default_provider |-> cfg.default_provider]
    ELSE [raised |-> NoError,
          default_provider |-> cfg.providers[Len(cfg.providers)]]

\* _validate_providers: what it raises, and config.default_provider after it
ValidateProviders(cfg) ==
    IF Len(cfg.providers) = 0
    THEN [raised |-> [kind |-> "ConfigurationError", provider |-> None],
          default_provider |-> cfg.default_provider]
    ELSE IF cfg.default_provider # None
    THEN IF cfg.default_provider \notin Keys(cfg)
         THEN [raised |-> [kind |-> "ConfigurationError",
                           provider |-> cfg.default_provider],
               default_provider |-> cfg.default_provider]
         ELSE [raised |-> NoError, default_provider |-> cfg.default_provider]
    ELSE [raised |-> NoError, default_provider |-> cfg.providers[1]]

\* the body of the try of _initialize_integrators for one provider
InstantiateAdapter(provider_name, ctor) ==
    IF provider_name \notin Provider
    THEN [raised |-> "ValueError", class |-> None, called |-> FALSE]
    ELSE LET got == RegistryGet(provider_name)
         IN IF got.raised # None
            THEN [raised |-> got.raised, class |-> None, called |-> FALSE]
            ELSE IF ctor[provider_name] = "ok"
            THEN [raised |-> None, class |-> got.class, called |-> TRUE]
            ELSE [raised |-> ctor[provider_name], class |-> None,
                  called |-> TRUE]

\* _initialize_integrators with the single clause "except Exception"
InitErrorAlwaysConfiguration(provider_name, kind) ==
    [kind |-> "ConfigurationError", provider |-> provider_name]

\* the except clauses of _initialize_integrators
InitError(provider_name, kind) ==
    IF IsValueError(kind)
    THEN [kind |-> "InvalidProviderError", provider |-> provider_name]
    ELSE [kind |-> "ConfigurationError", provider |-> provider_name]

\* the for loop of _initialize_integrators skipping a provider that fails
RECURSIVE InitLoopSkipsFailure(_, _, _, _, _)
InitLoopSkipsFailure(names, i, ctor, acc, calls) ==
    IF i > Len(names)
    THEN [raised |-> NoError, integrators |-> acc, calls |-> calls]
    ELSE LET got == InstantiateAdapter(names[i], ctor)
             made == IF got.called THEN Append(calls, names[i]) ELSE calls
         IN InitLoopSkipsFailure(names, i + 1, ctor,
                IF got.raised = None THEN (names[i] :> got.class) @@ acc
                ELSE acc, made)

\* the for loop of _initialize_integrators, from entry i on
RECURSIVE InitLoop(_, _, _, _, _)
InitLoop(names, i, ctor, acc, calls) ==
    IF i > Len(names)
    THEN [raised |-> NoError, integrators |-> acc, calls |-> calls]
    ELSE LET got == InstantiateAdapter(names[i], ctor)
             made == IF got.called THEN Append(calls, names[i]) ELSE calls
         IN IF got.raised = None
            THEN InitLoop(names, i + 1, ctor,
                          (names[i] :> got.class) @@ acc, made)
            ELSE [raised |-> InitError(names[i], got.raised),
                  integrators |-> acc, calls |-> made]

\* _initialize_integrators
InitializeIntegrators(cfg, ctor) ==
    LET v == ValidateProviders(cfg)
    IN IF v.raised.kind # None
       THEN [raised |-> v.raised, integrators |-> EmptyMap, calls |-> <<>>,
             default_provider |-> v.default_provider]
       ELSE LET r == InitLoop(cfg.providers, 1, ctor, EmptyMap, <<>>)
            IN [raised |-> r.raised, integrators |-> r.integrators,
                calls |-> r.calls, default_provider |-> v.default_provider]

NotInvoked == [kind |-> None, value |-> None]

NoCall == [op |-> None, provider |-> None, resolved |-> None, adapter |-> None,
           choices |-> <<>>, repeated |-> FALSE, attempts |-> 0, invoked |-> 0,
           adapterDid |-> NotInvoked, result |-> NotInvoked]

\* EasySwitch(config): __init__.  A raise leaves no client object; the
\* default provider _validate_providers wrote stays in the config object.
Construct(ctor) ==
    LET r == InitializeIntegrators(config, ctor)
    IN /\ given' = [called |-> TRUE, providers |-> config.providers,
                    default_provider |-> config.default_provider]
       /\ ctorDid' = ctor
       /\ config' = [config EXCEPT !.default_provider = r.default_provider]
       /\ constructed' = (r.raised.kind = None)
       /\ integrators' = IF r.raised.kind = None THEN r.integrators ELSE EmptyMap
       /\ ctorRaised' = r.raised
       /\ ctorCalls' = r.calls
       /\ call' = NoCall
       /\ UNCHANGED <<adapterVars, tokenVars, httpVars>>

\* ------------------------------------------------------------------------
\* Public operations of the client
\* ------------------------------------------------------------------------

Operations == {"send_payment", "check_status", "cancel_transaction", "refund"}

\* _get_integrator falling back to the default provider's adapter
GetIntegratorFallsBack(provider) ==
    LET resolved == IF provider # None /\ provider \in DOMAIN integrators
                    THEN provider
                    ELSE config.default_provider
    IN IF resolved = None
       THEN [raised |-> "ConfigurationError", resolved |-> resolved,
             adapter |-> None, choices |-> <<>>]
       ELSE IF resolved \notin DOMAIN integrators
       THEN [raised |-> "InvalidProviderError", resolved |-> resolved,
             adapter |-> None, choices |-> config.providers]
       ELSE [raised |-> None, resolved |-> resolved,
             adapter |-> integrators[resolved], choices |-> <<>>]

\* _get_integrator(provider)
GetIntegrator(provider) ==
    LET resolved == IF provider # None THEN provider
                    ELSE config.default_provider
    IN IF resolved = None
       THEN [raised |-> "ConfigurationError", resolved |-> resolved,
             adapter |-> None, choices |-> <<>>]
       ELSE IF resolved \notin DOMAIN integrators
       THEN [raised |-> "InvalidProviderError", resolved |-> resolved,
             adapter |-> None, choices |-> config.providers]
       ELSE [raised |-> None, resolved |-> resolved,
             adapter |-> integrators[resolved], choices |-> <<>>]

\* the arguments each public operation passes to the adapter's operation:
\* how many positional ones, and the keywords
ClientArguments(op) ==
    CASE op = "send_payment" ->
            [positional |-> 0,
             keywords |-> {"amount", "phone_number", "currency", "reference",
                           "customer_info", "metadata"}]
      [] op = "check_status" -> [positional |-> 1, keywords |-> {}]
      [] op = "cancel_transaction" -> [positional |-> 1, keywords |-> {}]
      [] op = "refund" ->
            [positional |-> 0,
             keywords |-> {"transaction_id", "amount", "reason"}]

\* the parameters of the operations of the adapter contract (after self),
\* and how many of them have no default
BaseAdapterParameters(op) ==
    CASE op = "send_payment" -> [names |-> <<"transaction">>, required |-> 1]
      [] op = "check_status" -> [names |-> <<"transaction_id">>, required |-> 1]
      [] op = "cancel_transaction" ->
            [names |-> <<"transaction_id">>, required |-> 1]
      [] op = "refund" ->
            [names |-> <<"transaction_id", "amount", "reason">>, required |-> 1]

\* the parameters of the operations SemoaAdapter defines itself
SemoaParameters(op) ==
    CASE op = "send_payment" -> [names |-> <<"transaction">>, required |-> 1]
      [] op = "check_status" -> [names |-> <<"transaction_id">>, required |-> 1]
      [] op = "cancel_transaction" ->
            [names |-> <<"transaction_id">>, required |-> 1]
      [] OTHER -> BaseAdapterParameters(op)

AdapterParameters(class, op) ==
    IF class = "SemoaAdapter" THEN SemoaParameters(op)
    ELSE BaseAdapterParameters(op)

\* Python's binding of a call's arguments to a function's parameters: FALSE
\* is a TypeError, raised before the function's body runs
Binds(parameters, arguments) ==
    LET n == Len(parameters.names)
        byKeyword == {parameters.names[i] : i \in (arguments.positional + 1)..n}
    IN /\ arguments.positional <= n
       /\ arguments.keywords \subseteq byKeyword
       /\ \A i \in 1..parameters.required :
              i <= arguments.positional \/ parameters.names[i] \in arguments.keywords

\* what an adapter's operation may do once it runs
AdapterOutcomes(op) ==
    {[kind |-> "return", value |-> v] :
        v \in CASE op = "send_payment" -> {"PaymentResponse"}
                [] op = "refund" -> {"PaymentResponse"}
                [] op = "check_status" -> {"TransactionStatus"}
                [] op = "cancel_transaction" -> {"True", "False"}}
    \cup {[kind |-> "raise", value |-> "PaymentError"]}

\* a public operation that keeps what the adapter returned and gives it
\* again to the same call
DispatchCached(op, provider, outcome) ==
    LET g == GetIntegrator(provider)
        repeated == call.op = op /\ call.provider = provider
        base == [op |-> op, provider |-> provider, resolved |-> g.resolved,
                 adapter |-> g.adapter, choices |-> g.choices,
                 repeated |-> repeated]
    IN IF g.raised # None
       THEN base @@ [attempts |-> 0, invoked |-> 0, adapterDid |-> NotInvoked,
                     result |-> [kind |-> "raise", value |-> g.raised]]
       ELSE IF repeated /\ call.result.kind = "return"
       THEN base @@ [attempts |-> 0, invoked |-> 0, adapterDid |-> NotInvoked,
                     result |-> call.result]
       ELSE IF ~Binds(AdapterParameters(g.adapter, op), ClientArguments(op))
       THEN base @@ [attempts |-> 1, invoked |-> 0, adapterDid |-> NotInvoked,
                     result |-> [kind |-> "raise", value |-> "TypeError"]]
       ELSE base @@ [attempts |-> 1, invoked |-> 1, adapterDid |-> outcome,
                     result |-> outcome]

\* A public operation: resolve the adapter, call its operation of the same
\* name, return what it returns.  The record tells whether the call before
\* it was the same (repeated), how many times the adapter's operation was
\* called (attempts), and how many times its body ran (invoked).
Dispatch(op, provider, outcome) ==
    LET g == GetIntegrator(provider)
        base == [op |-> op, provider |-> provider, resolved |-> g.resolved,
                 adapter |-> g.adapter, choices |-> g.choices,
                 repeated |-> (call.op = op /\ call.provider = provider)]
    IN IF g.raised # None
       THEN base @@ [attempts |-> 0, invoked |-> 0, adapterDid |-> NotInvoked,
                     result |-> [kind |-> "raise", value |-> g.raised]]
       ELSE IF ~Binds(AdapterParameters(g.adapter, op), ClientArguments(op))
       THEN base @@ [attempts |-> 1, invoked |-> 0, adapterDid |-> NotInvoked,
                     result |-> [kind |-> "raise", value |-> "TypeError"]]
       ELSE base @@ [attempts |-> 1, invoked |-> 1, adapterDid |-> outcome,
                     result |-> outcome]

\* a public operation that drops from the map the adapter whose operation
\* raised
PublicOperationDropsTheFailed(op, provider, outcome) ==
    LET did == Dispatch(op, provider, outcome)
    IN /\ constructed
       /\ call' = did
       /\ integrators' =
             IF did.adapter # None /\ did.result.kind = "raise"
             THEN [p \in DOMAIN integrators \ {did.resolved} |-> integrators[p]]
             ELSE integrators
       /\ UNCHANGED <<config, given, ctorDid, constructed, ctorRaised, ctorCalls>>
       /\ UNCHANGED <<adapterVars, tokenVars, httpVars>>

\* _get_integrator and the adapter's operation read self.config and
\* self._integrators and assign neither
PublicOperation(op, provider, outcome) ==
    /\ constructed
    /\ call' = Dispatch(op, provider, outcome)
    /\ UNCHANGED <<config, given, ctorDid, constructed, integrators,
                   ctorRaised, ctorCalls>>
    /\ UNCHANGED <<adapterVars, tokenVars, httpVars>>

send_payment(provider, outcome) ==
    PublicOperation("send_payment", provider, outcome)

check_status(provider, outcome) ==
    PublicOperation("check_status", provider, outcome)

cancel_transaction(provider, outcome) ==
    PublicOperation("cancel_transaction", provider, outcome)

refund(provider, outcome) ==
    PublicOperation("refund", provider, outcome)

\* ------------------------------------------------------------------------
\* Values
\* ------------------------------------------------------------------------

\* A Python value that is a str (the sequence of its characters), None, or
\* absent (a key a mapping does not have).
Str(chars) == [type |-> "str", chars |-> chars]
PyNone == [type |-> "NoneType", chars |-> <<>>]
PyAbsent == [type |-> "absent", chars |-> <<>>]

\* bool(v)
Truthy(v) == v.type = "str" /\ Len(v.chars) > 0

\* mapping.get(key): None for an absent key
Get(v) == IF v.type = "absent" THEN PyNone ELSE v

\* mapping.get(key, default)
GetOr(v, default) == IF v.type = "absent" THEN default ELSE v

\* A number of a JSON body: absent, null, or an integer
NoNumber == [type |-> "absent", n |-> 0]
NullNumber == [type |-> "NoneType", n |-> 0]
Number(n) == [type |-> "int", n |-> n]

RECURSIVE SelectChars(_, _)
SelectChars(chars, keep) ==
    IF chars = <<>> THEN <<>>
    ELSE IF Head(chars) \in keep
         THEN <<Head(chars)>> \o SelectChars(Tail(chars), keep)
         ELSE SelectChars(Tail(chars), keep)

Digits == {"0", "1", "2", "3", "4", "5", "6", "7", "8", "9"}

\* ''.join(filter(str.isdigit, s))
OnlyDigits(s) == Str(SelectChars(s.chars, Digits))

\* s.replace(" ", "")
WithoutSpaces(s) ==
    Str(SelectChars(s.chars, {s.chars[i] : i \in 1..Len(s.chars)} \ {" "}))

UpperCase ==
    <<"A", "B", "C", "D", "E", "F", "G", "H", "I", "J", "K", "L", "M",
      "N", "O", "P", "Q", "R", "S", "T", "U", "V", "W", "X", "Y", "Z">>

LowerCase ==
    <<"a", "b", "c", "d", "e", "f", "g", "h", "i", "j", "k", "l", "m",
      "n", "o", "p", "q", "r", "s", "t", "u", "v", "w", "x", "y", "z">>

LowerChar(c) ==
    IF \E i \in 1..Len(UpperCase) : UpperCase[i] = c
    THEN LowerCase[CHOOSE i \in 1..Len(UpperCase) : UpperCase[i] = c]
    ELSE c

\* s.lower()
Lower(s) == Str([i \in 1..Len(s.chars) |-> LowerChar(s.chars[i])])

\* ------------------------------------------------------------------------
\* types.py
\* ------------------------------------------------------------------------

TransactionStatus ==
    {"pending", "successful", "failed", "error", "cancelled", "refused",
     "declined", "expired", "refunded", "processing", "initiated", "unknown",
     "completed", "transferred"}

\* PaymentResponse.is_successful, is_pending, is_failed
is_successful(response) == response.status = "successful"

\* is_pending that does not count a transaction just initiated
is_pending_or_processing(response) == response.status \in {"pending", "processing"}

is_pending(response) == response.status \in {"pending", "processing", "initiated"}

is_failed(response) == response.status \in {"failed", "cancelled", "expired"}

\* ------------------------------------------------------------------------
\* The adapters: currencies and amounts.  Amounts are counted in hundredths
\* of the currency's unit, so that 0.10 GHS is 10 and 500.00 is 50000.
\* ------------------------------------------------------------------------

Adapters == {"PaystackAdapter", "AirtelMoneyAdapter", "SemoaAdapter"}

PaystackMinAmount == [NGN |-> 5000, GHS |-> 10, USD |-> 200]

PaystackMaxAmount ==
    [NGN |-> 1000000000, GHS |-> 1000000000, USD |-> 1000000000]

AirtelMinAmount ==
    [UGX |-> 50000, TZS |-> 50000, KES |-> 1000, RWF |-> 10000, ZMW |-> 100,
     MWK |-> 10000, NGN |-> 5000, CDF |-> 50000, XOF |-> 10000, GHS |-> 100,
     BIF |-> 50000, ETB |-> 1000, BWP |-> 100, ZWL |-> 10000]

AirtelMaxAmount ==
    [UGX |-> 1000000000, TZS |-> 1000000000, KES |-> 50000000,
     RWF |-> 500000000, ZMW |-> 5000000, MWK |-> 500000000,
     NGN |-> 100000000, CDF |-> 1000000000, XOF |-> 500000000,
     GHS |-> 5000000, BIF |-> 1000000000, ETB |-> 50000000, BWP |-> 5000000,
     ZWL |-> 1000000000]

SemoaMinAmount == [XOF |-> 10000, XAF |-> 10000, EUR |-> 100, USD |-> 100]

SemoaMaxAmount ==
    [XOF |-> 100000000, XAF |-> 100000000, EUR |-> 1000000, USD |-> 1000000]

MIN_AMOUNT(adapter) ==
    CASE adapter = "PaystackAdapter" -> PaystackMinAmount
      [] adapter = "AirtelMoneyAdapter" -> AirtelMinAmount
      [] adapter = "SemoaAdapter" -> SemoaMinAmount

MAX_AMOUNT(adapter) ==
    CASE adapter = "PaystackAdapter" -> PaystackMaxAmount
      [] adapter = "AirtelMoneyAdapter" -> AirtelMaxAmount
      [] adapter = "SemoaAdapter" -> SemoaMaxAmount

SUPPORTED_CURRENCIES(adapter) ==
    CASE adapter = "PaystackAdapter" -> {"NGN", "GHS", "USD"}
      [] adapter = "AirtelMoneyAdapter" ->
            {"UGX", "TZS", "KES", "RWF", "ZMW", "MWK", "NGN", "CDF", "XOF",
             "GHS", "BIF", "ETB", "BWP", "ZWL"}
      [] adapter = "SemoaAdapter" -> {"XOF", "XAF", "EUR", "USD"}

\* the field of the customer record a provider cannot do without
RequiredCustomerField(adapter) ==
    IF adapter = "PaystackAdapter" THEN "email" ELSE "phone_number"

\* ------------------------------------------------------------------------
\* Inputs of the adapters' operations
\* ------------------------------------------------------------------------

\* 500.00
FiveHundred == 50000

\* a currency the adapter does not support
UnsupportedCurrency(adapter) ==
    CASE adapter = "PaystackAdapter" -> "XOF"
      [] adapter = "AirtelMoneyAdapter" -> "USD"
      [] adapter = "SemoaAdapter" -> "NGN"

\* the currency the customers below pay in
UsualCurrency(adapter) ==
    IF adapter = "SemoaAdapter" THEN "XOF" ELSE "NGN"

PhoneInputs == {PyNone, Str(<<>>), Str(<<"+", "2", "2", "8", " ", "9", "0">>)}

EmailInputs == {PyNone, Str(<<>>), Str(<<"u", "@", "x">>)}

NoCustomer == [present |-> FALSE, phone_number |-> PyNone, email |-> PyNone]

CustomerInputs ==
    {NoCustomer} \cup
    [present : {TRUE}, phone_number : PhoneInputs, email : EmailInputs]

KnownCustomer ==
    [present |-> TRUE,
     phone_number |-> Str(<<"+", "2", "2", "8", " ", "9", "0">>),
     email |-> Str(<<"u", "@", "x">>)]

Transaction(currency, amount, customer) ==
    [transaction_id |-> Str(<<"t", "x">>), reference |-> Str(<<"r", "e", "f">>),
     currency |-> currency, amount |-> amount, customer |-> customer]

\* the amounts just outside the range of each supported currency
OutOfRange(adapter) ==
    UNION {{Transaction(c, MIN_AMOUNT(adapter)[c] - 1, KnownCustomer),
            Transaction(c, MAX_AMOUNT(adapter)[c] + 1, KnownCustomer)} :
           c \in SUPPORTED_CURRENCIES(adapter)}

\* both ends of the range of each supported currency, and 500
InRange(adapter) ==
    UNION {{Transaction(c, MIN_AMOUNT(adapter)[c], KnownCustomer),
            Transaction(c, FiveHundred, KnownCustomer),
            Transaction(c, MAX_AMOUNT(adapter)[c], KnownCustomer)} :
           c \in SUPPORTED_CURRENCIES(adapter)}

\* every customer, paying 500 in the usual currency
AnyCustomer(adapter) ==
    {Transaction(UsualCurrency(adapter), FiveHundred, c) : c \in CustomerInputs}

\* the transactions format_transaction is called with
FormatInputs(adapter) ==
    OutOfRange(adapter) \cup InRange(adapter) \cup AnyCustomer(adapter)
    \cup {Transaction(UnsupportedCurrency(adapter), FiveHundred, KnownCustomer)}

\* the transactions send_payment is called with: of those in range, only
\* the ones in the usual currency
SendInputs(adapter) ==
    {t \in FormatInputs(adapter) :
        t \in InRange(adapter) => t.currency = UsualCurrency(adapter)}

\* A response of the transport: its HTTP status and, of its JSON body, the
\* provider's own "status" flag (ok), whether the body holds the data of the
\* transaction (full), and Airtel's status code.  The HTTP statuses are both
\* ends of the range of success, the first status above it, and 429.
Response(status, ok, full, code) ==
    [status |-> status, ok |-> ok, full |-> full, code |-> code]

PaystackResponses ==
    {Response(200, TRUE, TRUE, PyAbsent), Response(200, TRUE, FALSE, PyAbsent),
     Response(200, FALSE, TRUE, PyAbsent), Response(299, TRUE, TRUE, PyAbsent),
     Response(300, TRUE, TRUE, PyAbsent), Response(429, TRUE, TRUE, PyAbsent)}

\* the status codes of Airtel, in both cases, and one it does not know
AirtelCodeInputs ==
    {PyAbsent, Str(<<"T", "S">>), Str(<<"t", "s">>), Str(<<"T", "F">>),
     Str(<<"T", "P">>), Str(<<"X", "X">>)}

AirtelResponses ==
    {Response(200, TRUE, TRUE, c) : c \in AirtelCodeInputs}
    \cup {Response(299, TRUE, TRUE, PyAbsent), Response(300, TRUE, TRUE, PyAbsent),
          Response(429, TRUE, TRUE, PyAbsent)}

SemoaResponses ==
    {Response(200, TRUE, TRUE, PyAbsent), Response(200, TRUE, FALSE, PyAbsent),
     Response(299, TRUE, TRUE, PyAbsent), Response(300, TRUE, TRUE, PyAbsent),
     Response(429, TRUE, TRUE, PyAbsent)}

\* a field of the data of the body
Field(response, chars) == IF response.full THEN Str(chars) ELSE PyAbsent

\* the answers of Airtel's token endpoint: a token for the default time, a
\* token that is about to expire, a token whose expires_in is null, a body
\* without a token, a refusal
TokenResponse(status, access_token, expires_in) ==
    [status |-> status, access_token |-> access_token, expires_in |-> expires_in]

TokenResponses ==
    {TokenResponse(200, Str(<<"t", "1">>), NoNumber),
     TokenResponse(200, Str(<<"t", "2">>), Number(300)),
     TokenResponse(200, Str(<<"t", "2">>), NullNumber),
     TokenResponse(200, PyAbsent, NoNumber),
     TokenResponse(400, PyAbsent, NoNumber)}

InRange200(status) == status \in 200..299

\* ------------------------------------------------------------------------
\* BaseAdapter
\* ------------------------------------------------------------------------

\* validate_transaction without the check of the customer's fields
ValidateTransactionAmountOnly(adapter, transaction) ==
    IF transaction.currency \notin SUPPORTED_CURRENCIES(adapter)
    THEN "ValidationError"
    ELSE IF \/ transaction.amount < MIN_AMOUNT(adapter)[transaction.currency]
            \/ transaction.amount > MAX_AMOUNT(adapter)[transaction.currency]
    THEN "ValidationError"
    ELSE None

\* validate_transaction: the error it raises, None when it raises none
ValidateTransaction(adapter, transaction) ==
    IF transaction.currency \notin SUPPORTED_CURRENCIES(adapter)
    THEN "ValidationError"
    ELSE IF \/ transaction.amount < MIN_AMOUNT(adapter)[transaction.currency]
            \/ transaction.amount > MAX_AMOUNT(adapter)[transaction.currency]
    THEN "ValidationError"
    ELSE IF ~transaction.customer.present
    THEN "ValidationError"
    ELSE IF ~Truthy(transaction.customer[RequiredCustomerField(adapter)])
    THEN "ValidationError"
    ELSE None

\* ------------------------------------------------------------------------
\* What an operation of an adapter does: the error it raises (None: it
\* returns), the status code and the body the error carries, the payload or
\* the PaymentResponse it returns, and the requests it sent.
\* ------------------------------------------------------------------------

NoPayload == [amount |-> 0, currency |-> None, contact |-> PyNone,
              reference |-> PyNone]

NoPaymentResponse ==
    [transaction_id |-> PyNone, reference |-> PyNone, status |-> None,
     amount |-> 0, currency |-> None, payment_link |-> PyNone,
     transaction_token |-> PyNone]

NoResponse == [status |-> 0, ok |-> FALSE, full |-> FALSE, code |-> PyAbsent]

NoTokenResponse ==
    [status |-> 0, access_token |-> PyAbsent, expires_in |-> NoNumber]

NoTransaction ==
    [transaction_id |-> PyNone, reference |-> PyNone, currency |-> None,
     amount |-> 0, customer |-> NoCustomer]

Raises(kind, status_code, requests) ==
    [raised |-> kind, status_code |-> status_code, payload |-> NoPayload,
     returned |-> NoPaymentResponse, requests |-> requests]

ReturnsPayload(payload) ==
    [raised |-> None, status_code |-> 0, payload |-> payload,
     returned |-> NoPaymentResponse, requests |-> <<>>]

ReturnsResponse(payload, response, requests) ==
    [raised |-> None, status_code |-> 0, payload |-> payload,
     returned |-> response, requests |-> requests]

\* ------------------------------------------------------------------------
\* PaystackAdapter
\* ------------------------------------------------------------------------

\* the payload's contact is its "email"; its amount is in kobo
PaystackFormatTransaction(transaction) ==
    LET invalid == ValidateTransaction("PaystackAdapter", transaction)
    IN IF invalid # None THEN Raises(invalid, 0, <<>>)
       ELSE IF ~transaction.customer.present
       THEN Raises("AttributeError", 0, <<>>)
       ELSE ReturnsPayload([amount |-> transaction.amount,
                            currency |-> None,
                            contact |-> transaction.customer.email,
                            reference |-> transaction.reference])

\* send_payment taking the provider's acceptance for the customer's payment
PaystackSendPaymentSuccessful(transaction, response) ==
    LET formatted == PaystackFormatTransaction(transaction)
        requests == <<"/transaction/initialize">>
    IN IF formatted.raised # None THEN formatted
       ELSE IF InRange200(response.status) /\ response.ok
       THEN ReturnsResponse(formatted.payload,
                [transaction_id |-> transaction.transaction_id,
                 reference |-> Get(Field(response, <<"r", "e", "f">>)),
                 status |-> "successful",
                 amount |-> transaction.amount,
                 currency |-> transaction.currency,
                 payment_link |-> Get(Field(response, <<"u", "r", "l">>)),
                 transaction_token |-> Get(Field(response, <<"A", "C">>))],
                requests)
       ELSE Raises("PaymentError", response.status, requests)

PaystackSendPayment(transaction, response) ==
    LET formatted == PaystackFormatTransaction(transaction)
        requests == <<"/transaction/initialize">>
    IN IF formatted.raised # None THEN formatted
       ELSE IF InRange200(response.status) /\ response.ok
       THEN ReturnsResponse(formatted.payload,
                [transaction_id |-> transaction.transaction_id,
                 reference |-> Get(Field(response, <<"r", "e", "f">>)),
                 status |-> "pending",
                 amount |-> transaction.amount,
                 currency |-> transaction.currency,
                 payment_link |-> Get(Field(response, <<"u", "r", "l">>)),
                 transaction_token |-> Get(Field(response, <<"A", "C">>))],
                requests)
       ELSE Raises("PaymentError", response.status, requests)

\* ------------------------------------------------------------------------
\* AirtelMoneyAdapter
\* ------------------------------------------------------------------------

NoExpiry == [set |-> FALSE, at |-> 0]

\* _get_access_token that forgets the cached token when it cannot fetch one
AirtelGetAccessTokenForgetsOnFailure(tokenResponse) ==
    LET cache == [token |-> accessToken, expiry |-> tokenExpiry]
        empty == [token |-> PyNone, expiry |-> NoExpiry]
    IN IF Truthy(accessToken) /\ tokenExpiry.set /\ now < tokenExpiry.at
       THEN [raised |-> None, status_code |-> 0, token |-> accessToken,
             cache |-> cache, requests |-> <<>>]
       ELSE IF ~airtelConfig.client_id \/ ~airtelConfig.client_secret
       THEN [raised |-> "PaymentError", status_code |-> 0, token |-> PyNone,
             cache |-> empty, requests |-> <<>>]
       ELSE IF InRange200(tokenResponse.status)
       THEN LET token == Get(tokenResponse.access_token)
                expires_in == IF tokenResponse.expires_in.type = "absent"
                              THEN 3600 ELSE tokenResponse.expires_in.n
            IN IF tokenResponse.expires_in.type = "NoneType"
               THEN [raised |-> "TypeError", status_code |-> 0,
                     token |-> PyNone,
                     cache |-> [token |-> token, expiry |-> tokenExpiry],
                     requests |-> <<"/auth/oauth2/token">>]
               ELSE [raised |-> None, status_code |-> 0, token |-> token,
                     cache |-> [token |-> token,
                                expiry |-> [set |-> TRUE,
                                            at |-> now + expires_in - 300]],
                     requests |-> <<"/auth/oauth2/token">>]
       ELSE [raised |-> "PaymentError", status_code |-> tokenResponse.status,
             token |-> PyNone, cache |-> empty,
             requests |-> <<"/auth/oauth2/token">>]

\* _get_access_token that keeps a token until the provider's own expiry
AirtelGetAccessTokenWithoutMargin(tokenResponse) ==
    LET cache == [token |-> accessToken, expiry |-> tokenExpiry]
    IN IF Truthy(accessToken) /\ tokenExpiry.set /\ now < tokenExpiry.at
       THEN [raised |-> None, status_code |-> 0, token |-> accessToken,
             cache |-> cache, requests |-> <<>>]
       ELSE IF ~airtelConfig.client_id \/ ~airtelConfig.client_secret
       THEN [raised |-> "PaymentError", status_code |-> 0, token |-> PyNone,
             cache |-> cache, requests |-> <<>>]
       ELSE IF InRange200(tokenResponse.status)
       THEN LET token == Get(tokenResponse.access_token)
                expires_in == IF tokenResponse.expires_in.type = "absent"
                              THEN 3600 ELSE tokenResponse.expires_in.n
            IN IF tokenResponse.expires_in.type = "NoneType"
               THEN [raised |-> "TypeError", status_code |-> 0,
                     token |-> PyNone,
                     cache |-> [token |-> token, expiry |-> tokenExpiry],
                     requests |-> <<"/auth/oauth2/token">>]
               ELSE [raised |-> None, status_code |-> 0, token |-> token,
                     cache |-> [token |-> token,
                                expiry |-> [set |-> TRUE, at |-> now + expires_in]],
                     requests |-> <<"/auth/oauth2/token">>]
       ELSE [raised |-> "PaymentError", status_code |-> tokenResponse.status,
             token |-> PyNone, cache |-> cache,
             requests |-> <<"/auth/oauth2/token">>]

\* _get_access_token: the error it raises, the token it returns, the cache
\* it leaves, the requests it sent.  The token of a 2xx answer is stored
\* before the expiry is computed; a null expires_in fails that computation.
AirtelGetAccessToken(tokenResponse) ==
    LET cache == [token |-> accessToken, expiry |-> tokenExpiry]
    IN IF Truthy(accessToken) /\ tokenExpiry.set /\ now < tokenExpiry.at
       THEN [raised |-> None, status_code |-> 0, token |-> accessToken,
             cache |-> cache, requests |-> <<>>]
       ELSE IF ~airtelConfig.client_id \/ ~airtelConfig.client_secret
       THEN [raised |-> "PaymentError", status_code |-> 0, token |-> PyNone,
             cache |-> cache, requests |-> <<>>]
       ELSE IF InRange200(tokenResponse.status)
       THEN LET token == Get(tokenResponse.access_token)
                expires_in == IF tokenResponse.expires_in.type = "absent"
                              THEN 3600 ELSE tokenResponse.expires_in.n
            IN IF tokenResponse.expires_in.type = "NoneType"
               THEN [raised |-> "TypeError", status_code |-> 0,
                     token |-> PyNone,
                     cache |-> [token |-> token, expiry |-> tokenExpiry],
                     requests |-> <<"/auth/oauth2/token">>]
               ELSE [raised |-> None, status_code |-> 0, token |-> token,
                     cache |-> [token |-> token,
                                expiry |-> [set |-> TRUE,
                                            at |-> now + expires_in - 300]],
                     requests |-> <<"/auth/oauth2/token">>]
       ELSE [raised |-> "PaymentError", status_code |-> tokenResponse.status,
             token |-> PyNone, cache |-> cache,
             requests |-> <<"/auth/oauth2/token">>]

\* get_normalize_status
AirtelNormalizeStatus(status) ==
    LET code == Lower(status).chars
    IN CASE code = <<"t", "s">> -> "successful"
         [] code = <<"t", "f">> -> "failed"
         [] code = <<"t", "a">> -> "pending"
         [] code = <<"t", "p">> -> "pending"
         [] code = <<"t", "n">> -> "failed"
         [] code = <<"t", "r">> -> "refunded"
         [] code = <<"t", "c">> -> "cancelled"
         [] OTHER -> "unknown"

\* format_transaction looking for the phone number before it validates
AirtelFormatTransactionPhoneFirst(transaction) ==
    IF ~transaction.customer.present
    THEN Raises("AttributeError", 0, <<>>)
    ELSE IF ~Truthy(transaction.customer.phone_number)
    THEN Raises("PaymentError", 0, <<>>)
    ELSE LET invalid == ValidateTransaction("AirtelMoneyAdapter", transaction)
         IN IF invalid # None THEN Raises(invalid, 0, <<>>)
            ELSE ReturnsPayload([amount |-> transaction.amount,
                     currency |-> transaction.currency,
                     contact |-> OnlyDigits(transaction.customer.phone_number),
                     reference |-> transaction.reference])

\* the payload's contact is its "msisdn"
AirtelFormatTransaction(transaction) ==
    LET invalid == ValidateTransaction("AirtelMoneyAdapter", transaction)
    IN IF invalid # None THEN Raises(invalid, 0, <<>>)
       ELSE IF ~transaction.customer.present
       THEN Raises("AttributeError", 0, <<>>)
       ELSE IF ~Truthy(transaction.customer.phone_number)
       THEN Raises("PaymentError", 0, <<>>)
       ELSE ReturnsPayload([amount |-> transaction.amount,
                            currency |-> transaction.currency,
                            contact |-> OnlyDigits(transaction.customer.phone_number),
                            reference |-> transaction.reference])

\* send_payment building its headers, token included, before it formats
AirtelSendPaymentHeadersFirst(transaction, tokenResponse, response) ==
    LET formatted == AirtelFormatTransaction(transaction)
        got == AirtelGetAccessToken(tokenResponse)
        requests == got.requests \o <<"/merchant/v1/payments/">>
    IN IF got.raised # None
       THEN [did |-> Raises(got.raised, got.status_code, got.requests),
             cache |-> got.cache]
       ELSE IF formatted.raised # None
       THEN [did |-> [formatted EXCEPT !.requests = got.requests],
             cache |-> got.cache]
       ELSE IF InRange200(response.status)
       THEN [did |-> ReturnsResponse(formatted.payload,
                [transaction_id |-> Get(Field(response, <<"i", "d">>)),
                 reference |-> transaction.reference,
                 status |-> AirtelNormalizeStatus(
                                GetOr(response.code, Str(<<"t", "p">>))),
                 amount |-> transaction.amount,
                 currency |-> transaction.currency,
                 payment_link |-> PyNone,
                 transaction_token |-> Get(Field(response, <<"i", "d">>))],
                requests),
             cache |-> got.cache]
       ELSE [did |-> Raises("PaymentError", response.status, requests),
             cache |-> got.cache]

\* send_payment, and the cache of the token after it
AirtelSendPayment(transaction, tokenResponse, response) ==
    LET formatted == AirtelFormatTransaction(transaction)
        cache == [token |-> accessToken, expiry |-> tokenExpiry]
        got == AirtelGetAccessToken(tokenResponse)
        requests == got.requests \o <<"/merchant/v1/payments/">>
    IN IF formatted.raised # None THEN [did |-> formatted, cache |-> cache]
       ELSE IF got.raised # None
       THEN [did |-> Raises(got.raised, got.status_code, got.requests),
             cache |-> got.cache]
       ELSE IF InRange200(response.status)
       THEN [did |-> ReturnsResponse(formatted.payload,
                [transaction_id |-> Get(Field(response, <<"i", "d">>)),
                 reference |-> transaction.reference,
                 status |-> AirtelNormalizeStatus(
                                GetOr(response.code, Str(<<"t", "p">>))),
                 amount |-> transaction.amount,
                 currency |-> transaction.currency,
                 payment_link |-> PyNone,
                 transaction_token |-> Get(Field(response, <<"i", "d">>))],
                requests),
             cache |-> got.cache]
       ELSE [did |-> Raises("PaymentError", response.status, requests),
             cache |-> got.cache]

\* ------------------------------------------------------------------------
\* SemoaAdapter
\* ------------------------------------------------------------------------

\* the payload's contact is the "phone" of its "client"
SemoaFormatTransaction(transaction) ==
    LET invalid == ValidateTransaction("SemoaAdapter", transaction)
    IN IF invalid # None THEN Raises(invalid, 0, <<>>)
       ELSE IF ~transaction.customer.present
       THEN Raises("AttributeError", 0, <<>>)
       ELSE IF transaction.customer.phone_number.type # "str"
       THEN Raises("AttributeError", 0, <<>>)
       ELSE ReturnsPayload([amount |-> transaction.amount,
                            currency |-> transaction.currency,
                            contact |-> WithoutSpaces(transaction.customer.phone_number),
                            reference |-> PyNone])

SemoaSendPayment(transaction, response) ==
    LET formatted == SemoaFormatTransaction(transaction)
        requests == <<"orders">>
    IN IF formatted.raised # None THEN formatted
       ELSE IF InRange200(response.status)
       THEN ReturnsResponse(formatted.payload,
                [transaction_id |-> Get(Field(response, <<"N", "1">>)),
                 reference |-> Get(Field(response, <<"r", "e", "f">>)),
                 status |-> "pending",
                 amount |-> transaction.amount,
                 currency |-> transaction.currency,
                 payment_link |-> Get(Field(response, <<"u", "r", "l">>)),
                 transaction_token |-> PyNone],
                requests)
       ELSE Raises("PaymentError", response.status, requests)

\* ------------------------------------------------------------------------
\* Calls of the adapters' operations
\* ------------------------------------------------------------------------

Called(adapter, op, transaction, tokenResponse, response, did) ==
    [adapter |-> adapter, op |-> op, transaction |-> transaction,
     tokenResponse |-> tokenResponse, response |-> response,
     cacheBefore |-> [token |-> accessToken, expiry |-> tokenExpiry],
     did |-> did]

NoAdapterCall ==
    [adapter |-> None, op |-> None, transaction |-> NoTransaction,
     tokenResponse |-> NoTokenResponse, response |-> NoResponse,
     cacheBefore |-> [token |-> PyNone, expiry |-> NoExpiry],
     did |-> Raises(None, 0, <<>>)]

FormatTransaction(adapter, transaction) ==
    CASE adapter = "PaystackAdapter" -> PaystackFormatTransaction(transaction)
      [] adapter = "AirtelMoneyAdapter" -> AirtelFormatTransaction(transaction)
      [] adapter = "SemoaAdapter" -> SemoaFormatTransaction(transaction)

format_transaction(adapter, transaction) ==
    /\ adapterCall' = Called(adapter, "format_transaction", transaction,
                             NoTokenResponse, NoResponse,
                             FormatTransaction(adapter, transaction))
    /\ UNCHANGED <<now, airtelConfig, accessToken, tokenExpiry>>
    /\ UNCHANGED <<dispatcherVars, tokenVars, httpVars>>

Paystack_send_payment(transaction, response) ==
    /\ adapterCall' = Called("PaystackAdapter", "send_payment", transaction,
                             NoTokenResponse, response,
                             PaystackSendPayment(transaction, response))
    /\ UNCHANGED <<now, airtelConfig, accessToken, tokenExpiry>>
    /\ UNCHANGED <<dispatcherVars, tokenVars, httpVars>>

Airtel_send_payment(transaction, tokenResponse, response) ==
    LET r == AirtelSendPayment(transaction, tokenResponse, response)
    IN /\ adapterCall' = Called("AirtelMoneyAdapter", "send_payment",
                                transaction, tokenResponse, response, r.did)
       /\ accessToken' = r.cache.token
       /\ tokenExpiry' = r.cache.expiry
       /\ UNCHANGED <<now, airtelConfig>>
       /\ UNCHANGED <<dispatcherVars, tokenVars, httpVars>>

Semoa_send_payment(transaction, response) ==
    /\ adapterCall' = Called("SemoaAdapter", "send_payment", transaction,
                             NoTokenResponse, response,
                             SemoaSendPayment(transaction, response))
    /\ UNCHANGED <<now, airtelConfig, accessToken, tokenExpiry>>
    /\ UNCHANGED <<dispatcherVars, tokenVars, httpVars>>

\* ------------------------------------------------------------------------
\* Headers and authentication
\* ------------------------------------------------------------------------

\* f"Bearer {token}"
Bearer(token) ==
    Str(<<"B", "e", "a", "r", "e", "r", " ">>
        \o (IF token.type = "str" THEN token.chars ELSE <<"N", "o", "n", "e">>))

\* the headers a call returned (has), and their Authorization
Headers(authorization) == [has |-> TRUE, Authorization |-> authorization]

NoHeaderMapping == [has |-> FALSE, Authorization |-> PyAbsent]

\* get_headers that leaves the Authorization out when it gets no token
AirtelGetHeadersWithoutToken(authorization, tokenResponse) ==
    LET got == AirtelGetAccessToken(tokenResponse)
    IN IF ~authorization
       THEN [raised |-> None, status_code |-> 0, headers |-> Headers(PyAbsent),
             cache |-> [token |-> accessToken, expiry |-> tokenExpiry],
             requests |-> <<>>]
       ELSE IF got.raised # None
       THEN [raised |-> None, status_code |-> 0, headers |-> Headers(PyAbsent),
             cache |-> got.cache, requests |-> got.requests]
       ELSE [raised |-> None, status_code |-> 0,
             headers |-> Headers(Bearer(got.token)),
             cache |-> got.cache, requests |-> got.requests]

\* AirtelMoneyAdapter.get_headers, and the cache of the token after it
AirtelGetHeaders(authorization, tokenResponse) ==
    LET got == AirtelGetAccessToken(tokenResponse)
    IN IF ~authorization
       THEN [raised |-> None, status_code |-> 0, headers |-> Headers(PyAbsent),
             cache |-> [token |-> accessToken, expiry |-> tokenExpiry],
             requests |-> <<>>]
       ELSE IF got.raised # None
       THEN [raised |-> got.raised, status_code |-> got.status_code,
             headers |-> NoHeaderMapping, cache |-> got.cache,
             requests |-> got.requests]
       ELSE [raised |-> None, status_code |-> 0,
             headers |-> Headers(Bearer(got.token)),
             cache |-> got.cache, requests |-> got.requests]

\* SemoaAdapter.get_headers, of a config whose token is this (absent: the
\* config has no such attribute)
SemoaGetHeaders(authorization, token) ==
    IF ~authorization
    THEN [raised |-> None, status_code |-> 0, headers |-> Headers(PyAbsent),
          requests |-> <<>>]
    ELSE IF token.type = "absent"
    THEN [raised |-> "AttributeError", status_code |-> 0,
          headers |-> NoHeaderMapping, requests |-> <<>>]
    ELSE [raised |-> None, status_code |-> 0, headers |-> Headers(Bearer(token)),
          requests |-> <<>>]

\* SemoaAdapter.authenticate: the post is not awaited; AuthenticationError
\* does not take the keywords it is given
SemoaAuthenticate(awaitable, tokenResponse) ==
    IF awaitable
    THEN [raised |-> "AttributeError", returned |-> None, token |-> PyAbsent,
          requests |-> <<>>]
    ELSE IF tokenResponse.status = 200
    THEN [raised |-> None, returned |-> "True",
          token |-> Get(tokenResponse.access_token), requests |-> <<"auth">>]
    ELSE [raised |-> "TypeError", returned |-> None, token |-> PyAbsent,
          requests |-> <<"auth">>]

\* the tokens of Semoa's config: no such attribute, None, a token
SemoaTokens == {PyAbsent, PyNone, Str(<<"t", "1">>)}

Airtel_get_headers(authorization, tokenResponse) ==
    LET got == AirtelGetHeaders(authorization, tokenResponse)
    IN /\ adapterCall' = [adapter |-> "AirtelMoneyAdapter", op |-> "get_headers",
                          at |-> now, authorization |-> authorization,
                          tokenResponse |-> tokenResponse,
                          cacheBefore |-> [token |-> accessToken,
                                           expiry |-> tokenExpiry],
                          did |-> got]
       /\ accessToken' = got.cache.token
       /\ tokenExpiry' = got.cache.expiry
       /\ UNCHANGED <<now, airtelConfig>>
       /\ UNCHANGED <<dispatcherVars, tokenVars, httpVars>>

Semoa_get_headers(authorization, token) ==
    /\ adapterCall' = [adapter |-> "SemoaAdapter", op |-> "get_headers",
                       authorization |-> authorization, token |-> token,
                       did |-> SemoaGetHeaders(authorization, token)]
    /\ UNCHANGED <<now, airtelConfig, accessToken, tokenExpiry>>
    /\ UNCHANGED <<dispatcherVars, tokenVars, httpVars>>

Semoa_authenticate(awaitable, tokenResponse) ==
    /\ adapterCall' = [adapter |-> "SemoaAdapter", op |-> "authenticate",
                       awaitable |-> awaitable, tokenResponse |-> tokenResponse,
                       did |-> SemoaAuthenticate(awaitable, tokenResponse)]
    /\ UNCHANGED <<now, airtelConfig, accessToken, tokenExpiry>>
    /\ UNCHANGED <<dispatcherVars, tokenVars, httpVars>>

\* _get_access_token called on its own, at the time `at`
Airtel_get_access_token(tokenResponse) ==
    LET got == AirtelGetAccessToken(tokenResponse)
    IN /\ adapterCall' = [adapter |-> "AirtelMoneyAdapter",
                          op |-> "_get_access_token", at |-> now,
                          tokenResponse |-> tokenResponse,
                          cacheBefore |-> [token |-> accessToken,
                                           expiry |-> tokenExpiry],
                          did |-> got]
       /\ accessToken' = got.cache.token
       /\ tokenExpiry' = got.cache.expiry
       /\ UNCHANGED <<now, airtelConfig>>
       /\ UNCHANGED <<dispatcherVars, tokenVars, httpVars>>

\* time passes
Advance ==
    /\ now + ClockStep <= MaxNow
    /\ now' = now + ClockStep
    /\ UNCHANGED <<airtelConfig, accessToken, tokenExpiry, adapterCall>>
    /\ UNCHANGED <<dispatcherVars, tokenVars, httpVars>>

\* ------------------------------------------------------------------------
\* Concurrent calls of _get_access_token
\* ------------------------------------------------------------------------

Callers == 1..MaxCallers

\* a call that has not started
NotCalling ==
    [pc |-> "idle",
     saw |-> [token |-> PyNone, expiry |-> NoExpiry, tokenBy |-> 0, expiryBy |-> 0],
     did |-> [raised |-> None, token |-> PyNone]]

\* the adapter after __init__: no call runs, and no refresh has written
TokenIdle ==
    /\ callers = [c \in Callers |-> NotCalling]
    /\ writtenBy = [token |-> 0, expiry |-> 0, requests |-> 0, refreshes |-> 0,
                    failed |-> FALSE]

\* The call runs from its start to `await client.post(...)`: it reads the
\* cache and returns the cached token, or raises for want of credentials, or
\* sends the request for a token and waits for the answer.
Enter(c) ==
    LET saw == [token |-> accessToken, expiry |-> tokenExpiry,
                tokenBy |-> writtenBy.token, expiryBy |-> writtenBy.expiry]
        fresh == Truthy(accessToken) /\ tokenExpiry.set /\ now < tokenExpiry.at
        missing == ~airtelConfig.client_id \/ ~airtelConfig.client_secret
    IN /\ callers[c].pc = "idle"
       /\ (~fresh /\ ~missing) => writtenBy.requests < MaxRefreshes
       /\ callers' = [callers EXCEPT ![c] =
              IF fresh
              THEN [pc |-> "done", saw |-> saw,
                    did |-> [raised |-> None, token |-> accessToken]]
              ELSE IF missing
              THEN [pc |-> "done", saw |-> saw,
                    did |-> [raised |-> "PaymentError", token |-> PyNone]]
              ELSE [pc |-> "awaiting", saw |-> saw,
                    did |-> [raised |-> None, token |-> PyNone]]]
       /\ writtenBy' = IF fresh \/ missing THEN writtenBy
                       ELSE [writtenBy EXCEPT !.requests = @ + 1]
       /\ UNCHANGED <<now, airtelConfig, accessToken, tokenExpiry, adapterCall>>
       /\ UNCHANGED <<dispatcherVars, httpVars>>

\* The call runs from the answer of the token endpoint to its end: on a 2xx
\* answer it stores the token and then the expiry, unless computing the
\* expiry raises; on another answer it raises.
Complete(c, tokenResponse) ==
    LET id == writtenBy.refreshes + 1
        token == Get(tokenResponse.access_token)
        expires_in == IF tokenResponse.expires_in.type = "absent"
                      THEN 3600 ELSE tokenResponse.expires_in.n
    IN /\ callers[c].pc = "awaiting"
       /\ IF ~InRange200(tokenResponse.status)
          THEN /\ callers' = [callers EXCEPT ![c].pc = "done",
                                             ![c].did.raised = "PaymentError"]
               /\ UNCHANGED <<accessToken, tokenExpiry, writtenBy>>
          ELSE IF tokenResponse.expires_in.type = "NoneType"
          THEN /\ accessToken' = token
               /\ writtenBy' = [writtenBy EXCEPT !.token = id, !.refreshes = id,
                                                  !.failed = TRUE]
               /\ callers' = [callers EXCEPT ![c].pc = "done",
                                             ![c].did.raised = "TypeError"]
               /\ UNCHANGED tokenExpiry
          ELSE /\ accessToken' = token
               /\ tokenExpiry' = [set |-> TRUE, at |-> now + expires_in - 300]
               /\ writtenBy' = [writtenBy EXCEPT !.token = id, !.expiry = id,
                                                  !.refreshes = id]
               /\ callers' = [callers EXCEPT ![c].pc = "done",
                                             ![c].did.token = token]
       /\ UNCHANGED <<now, airtelConfig, adapterCall>>
       /\ UNCHANGED <<dispatcherVars, httpVars>>

\* the caller has its answer, and may call again
Return(c) ==
    /\ callers[c].pc = "done"
    /\ callers' = [callers EXCEPT ![c] = NotCalling]
    /\ UNCHANGED <<now, airtelConfig, accessToken, tokenExpiry, adapterCall,
                   writtenBy>>
    /\ UNCHANGED <<dispatcherVars, httpVars>>

\* time passes while the calls run
Tick ==
    /\ now + ClockStep <= MaxNow
    /\ now' = now + ClockStep
    /\ UNCHANGED <<airtelConfig, accessToken, tokenExpiry, adapterCall>>
    /\ UNCHANGED <<dispatcherVars, tokenVars, httpVars>>

\* ------------------------------------------------------------------------
\* Concurrent calls of HTTPClient._make_request
\* ------------------------------------------------------------------------

Requests == 1..MaxRequests

\* a call that has not started, or has returned to its caller
NotRequesting == [pc |-> "idle", transport |-> None, status |-> 0,
                  raised |-> None]

NoRequestInFlight ==
    /\ inFlight = [r \in Requests |-> NotRequesting]
    /\ sessions = {}

AdapterIdle ==
    /\ now = 0
    /\ accessToken = PyNone
    /\ tokenExpiry = NoExpiry
    /\ adapterCall = NoAdapterCall

Init ==
    /\ config \in RootConfig
    /\ given = [called |-> FALSE, providers |-> <<>>, default_provider |-> None]
    /\ ctorDid = [p \in DOMAIN AdaptersRegistry |-> "ok"]
    /\ constructed = FALSE
    /\ integrators = EmptyMap
    /\ ctorRaised = NoError
    /\ ctorCalls = <<>>
    /\ call = NoCall
    /\ AdapterIdle
    /\ airtelConfig = [client_id |-> TRUE, client_secret |-> TRUE]
    /\ TokenIdle
    /\ NoRequestInFlight

\* The inputs of an action, each compared with itself.  TLC's workers share
\* the values the quantifiers of a next-state relation bind and put a record
\* in normal form when they first compare it; the comparison here does that
\* once, before the workers start.
Inputs(S) == {v \in S : v = v}

Next ==
    \/ \E ctor \in CtorBehaviours : Construct(ctor)
    \/ \E p \in Inputs(ProviderNames \cup {None}) :
          \/ \E o \in Inputs(AdapterOutcomes("send_payment")) : send_payment(p, o)
          \/ \E o \in Inputs(AdapterOutcomes("check_status")) : check_status(p, o)
          \/ \E o \in Inputs(AdapterOutcomes("cancel_transaction")) : cancel_transaction(p, o)
          \/ \E o \in Inputs(AdapterOutcomes("refund")) : refund(p, o)

Spec == Init /\ [][Next]_vars

\* The adapters called directly, as the tests of the repository call them.
AdapterInit ==
    /\ config = [providers |-> <<>>, default_provider |-> None]
    /\ given = [called |-> FALSE, providers |-> <<>>, default_provider |-> None]
    /\ ctorDid = [p \in DOMAIN AdaptersRegistry |-> "ok"]
    /\ constructed = FALSE
    /\ integrators = EmptyMap
    /\ ctorRaised = NoError
    /\ ctorCalls = <<>>
    /\ call = NoCall
    /\ AdapterIdle
    /\ airtelConfig \in [client_id : BOOLEAN, client_secret : {TRUE}]
    /\ TokenIdle
    /\ NoRequestInFlight

\* The transport answers the requests that are sent, and no others.
Asks(requests, endpoint) == \E i \in 1..Len(requests) : requests[i] = endpoint

PaystackAnswers(t) ==
    IF Asks(PaystackSendPayment(t, NoResponse).requests, "/transaction/initialize")
    THEN PaystackResponses ELSE {NoResponse}

AirtelTokenAnswers(t) ==
    IF Asks(AirtelSendPayment(t, NoTokenResponse, NoResponse).did.requests,
            "/auth/oauth2/token")
    THEN TokenResponses ELSE {NoTokenResponse}

AirtelAnswers(t, k) ==
    IF Asks(AirtelSendPayment(t, k, NoResponse).did.requests,
            "/merchant/v1/payments/")
    THEN AirtelResponses ELSE {NoResponse}

SemoaAnswers(t) ==
    IF Asks(SemoaSendPayment(t, NoResponse).requests, "orders")
    THEN SemoaResponses ELSE {NoResponse}

AdapterNext ==
    \/ \E a \in Adapters : \E t \in Inputs(FormatInputs(a)) : format_transaction(a, t)
    \/ \E t \in Inputs(SendInputs("PaystackAdapter")) :
          \E r \in Inputs(PaystackAnswers(t)) : Paystack_send_payment(t, r)
    \/ \E t \in Inputs(SendInputs("AirtelMoneyAdapter")) :
          \E k \in Inputs(AirtelTokenAnswers(t)) : \E r \in Inputs(AirtelAnswers(t, k)) :
             Airtel_send_payment(t, k, r)
    \/ \E t \in Inputs(SendInputs("SemoaAdapter")) :
          \E r \in Inputs(SemoaAnswers(t)) : Semoa_send_payment(t, r)
    \/ \E k \in IF Asks(AirtelGetAccessToken(NoTokenResponse).requests,
                        "/auth/oauth2/token")
                THEN TokenResponses ELSE {NoTokenResponse} :
          Airtel_get_access_token(k)
    \/ \E a \in BOOLEAN :
          \E k \in IF Asks(AirtelGetHeaders(a, NoTokenResponse).requests,
                           "/auth/oauth2/token")
                   THEN TokenResponses ELSE {NoTokenResponse} :
             Airtel_get_headers(a, k)
    \/ \E a \in BOOLEAN : \E t \in SemoaTokens : Semoa_get_headers(a, t)
    \/ \E w \in BOOLEAN :
          \E k \in IF Asks(SemoaAuthenticate(w, NoTokenResponse).requests, "auth")
                   THEN TokenResponses ELSE {NoTokenResponse} :
             Semoa_authenticate(w, k)
    \/ Advance

AdapterSpec == AdapterInit /\ [][AdapterNext]_vars

\* ------------------------------------------------------------------------
\* The other operations of the adapters
\* ------------------------------------------------------------------------

\* the statuses of Paystack that get_normalize_status knows
PaystackCodes ==
    {<<"s", "u", "c", "c", "e", "s", "s">>, <<"f", "a", "i", "l", "e", "d">>,
     <<"a", "b", "a", "n", "d", "o", "n", "e", "d">>,
     <<"p", "e", "n", "d", "i", "n", "g">>, <<"r", "e", "f", "u", "n", "d">>}

\* the status codes of Airtel Money that get_normalize_status knows
AirtelCodes ==
    {<<"t", "s">>, <<"t", "f">>, <<"t", "a">>, <<"t", "p">>, <<"t", "n">>,
     <<"t", "r">>, <<"t", "c">>}

\* PaystackAdapter.get_normalize_status, of a string
PaystackNormalizeStatus(status) ==
    LET code == Lower(status).chars
    IN CASE code = <<"s", "u", "c", "c", "e", "s", "s">> -> "successful"
         [] code = <<"f", "a", "i", "l", "e", "d">> -> "failed"
         [] code = <<"a", "b", "a", "n", "d", "o", "n", "e", "d">> -> "cancelled"
         [] code = <<"p", "e", "n", "d", "i", "n", "g">> -> "pending"
         [] code = <<"r", "e", "f", "u", "n", "d">> -> "refunded"
         [] OTHER -> "unknown"

\* the normalization that forgets to fold the case
NormalizeStatusCaseSensitive(adapter, status) ==
    IF status.type # "str"
    THEN [raised |-> "AttributeError", value |-> None]
    ELSE IF Lower(status) # status
    THEN [raised |-> None, value |-> "unknown"]
    ELSE [raised |-> None,
          value |-> IF adapter = "PaystackAdapter"
                    THEN PaystackNormalizeStatus(status)
                    ELSE AirtelNormalizeStatus(status)]

\* get_normalize_status(status): the status it returns, or the error that
\* status.lower() raises when status is no string
NormalizeStatus(adapter, status) ==
    IF status.type # "str"
    THEN [raised |-> "AttributeError", value |-> None]
    ELSE [raised |-> None,
          value |-> IF adapter = "PaystackAdapter"
                    THEN PaystackNormalizeStatus(status)
                    ELSE AirtelNormalizeStatus(status)]

UpperChar(c) ==
    IF \E i \in 1..Len(LowerCase) : LowerCase[i] = c
    THEN UpperCase[CHOOSE i \in 1..Len(LowerCase) : LowerCase[i] = c]
    ELSE c

Upper(chars) == [i \in 1..Len(chars) |-> UpperChar(chars[i])]

Capitalized(chars) ==
    [i \in 1..Len(chars) |-> IF i = 1 THEN UpperChar(chars[i]) ELSE chars[i]]

\* the adapters that define get_normalize_status
Normalizers == {"PaystackAdapter", "AirtelMoneyAdapter"}

\* the statuses get_normalize_status is called with: the codes of both
\* providers in lower case, in upper case and capitalized, and strings that
\* neither provider knows
StatusInputs ==
    {Str(c) : c \in PaystackCodes \cup AirtelCodes}
    \cup {Str(Upper(c)) : c \in PaystackCodes \cup AirtelCodes}
    \cup {Str(Capitalized(c)) : c \in PaystackCodes \cup AirtelCodes}
    \cup {Str(<<>>), Str(<<"o", "k">>), Str(<<"t", "s", " ">>),
          Str(<<"s", "u", "c", "c", "e", "s", "s", "f", "u", "l">>),
          Str(<<"4", "0", "4">>)}

get_normalize_status(adapter, status) ==
    /\ adapterCall' = [adapter |-> adapter, op |-> "get_normalize_status",
                       status |-> status,
                       did |-> NormalizeStatus(adapter, status)]
    /\ UNCHANGED <<now, airtelConfig, accessToken, tokenExpiry>>
    /\ UNCHANGED <<dispatcherVars, tokenVars, httpVars>>

\* ------------------------------------------------------------------------
\* Status checks
\* ------------------------------------------------------------------------

\* an amount in major units: its whole part and its hundredths
Major(whole, hundredths) == [whole |-> whole, hundredths |-> hundredths]

\* an amount in minor units taken for one in major units
PaystackMajorUndivided(amount) ==
    LET n == IF amount.type = "int" THEN amount.n ELSE 0
    IN Major(n, 0)

\* Paystack's (amount or 0) / 100, of an amount in minor units
PaystackMajor(amount) ==
    LET n == IF amount.type = "int" THEN amount.n ELSE 0
    IN Major(n \div 100, n % 100)

\* The body of the answer to a query about a transaction: the HTTP status,
\* the provider's own "status" flag (ok), the status of the transaction and
\* its amount.
QueryResponse(status, ok, code, amount) ==
    [status |-> status, ok |-> ok, code |-> code, amount |-> amount]

NoQueryResponse == QueryResponse(0, FALSE, PyAbsent, NoNumber)

\* what a query did: the error it raised (None: it returned), the status
\* code the error carries (0: none), whether the error carries the body of
\* the response, the result returned, the requests sent
NoResult == [kind |-> None, status |-> None, amount |-> Major(0, 0)]

QueryRaises(kind, status_code, body, requests) ==
    [raised |-> kind, status_code |-> status_code, body |-> body,
     returned |-> NoResult, requests |-> requests]

QueryReturns(kind, status, amount, requests) ==
    [raised |-> None, status_code |-> 0, body |-> FALSE,
     returned |-> [kind |-> kind, status |-> status, amount |-> amount],
     requests |-> requests]

\* check_status reading the HTTP status before the body
PaystackCheckStatusReadsHttpStatus(response) ==
    LET requests == <<"/transaction/verify/">>
        status == NormalizeStatus("PaystackAdapter", Get(response.code))
    IN IF ~InRange200(response.status)
       THEN QueryRaises(IF response.status = 429 THEN "RateLimitError"
                        ELSE "PaymentError", response.status, TRUE, requests)
       ELSE IF ~response.ok
       THEN QueryRaises("PaymentError", 0, TRUE, requests)
       ELSE IF status.raised # None
       THEN QueryRaises(status.raised, 0, FALSE, requests)
       ELSE QueryReturns("TransactionStatusResponse", status.value,
                         PaystackMajor(response.amount), requests)

\* PaystackAdapter.check_status
PaystackCheckStatus(response) ==
    LET requests == <<"/transaction/verify/">>
        status == NormalizeStatus("PaystackAdapter", Get(response.code))
    IN IF ~response.ok
       THEN QueryRaises("PaymentError", 0, TRUE, requests)
       ELSE IF status.raised # None
       THEN QueryRaises(status.raised, 0, FALSE, requests)
       ELSE QueryReturns("TransactionStatusResponse", status.value,
                         PaystackMajor(response.amount), requests)

\* float(transaction.get("amount", default))
AirtelAmount(amount, default) ==
    CASE amount.type = "absent" -> [raised |-> None, value |-> Major(default, 0)]
      [] amount.type = "NoneType" ->
            [raised |-> "TypeError", value |-> Major(0, 0)]
      [] OTHER -> [raised |-> None, value |-> Major(amount.n, 0)]

\* AirtelMoneyAdapter.check_status, and the cache of the token after it
AirtelCheckStatus(tokenResponse, response) ==
    LET got == AirtelGetAccessToken(tokenResponse)
        requests == got.requests \o <<"/standard/v1/payments/">>
        status == NormalizeStatus("AirtelMoneyAdapter",
                                  GetOr(response.code, Str(<<"t", "n">>)))
        amount == AirtelAmount(response.amount, 0)
    IN IF got.raised # None
       THEN [did |-> QueryRaises(got.raised, got.status_code,
                                 got.status_code # 0, got.requests),
             cache |-> got.cache]
       ELSE IF ~InRange200(response.status)
       THEN [did |-> QueryRaises("PaymentError", response.status, TRUE, requests),
             cache |-> got.cache]
       ELSE IF status.raised # None
       THEN [did |-> QueryRaises(status.raised, 0, FALSE, requests),
             cache |-> got.cache]
       ELSE IF amount.raised # None
       THEN [did |-> QueryRaises(amount.raised, 0, FALSE, requests),
             cache |-> got.cache]
       ELSE [did |-> QueryReturns("TransactionStatusResponse", status.value,
                                  amount.value, requests),
             cache |-> got.cache]

\* the value of each member of TransactionStatus
StatusValue ==
    [pending |-> <<"p", "e", "n", "d", "i", "n", "g">>,
     successful |-> <<"s", "u", "c", "c", "e", "s", "s", "f", "u", "l">>,
     failed |-> <<"f", "a", "i", "l", "e", "d">>,
     error |-> <<"e", "r", "r", "o", "r">>,
     cancelled |-> <<"c", "a", "n", "c", "e", "l", "l", "e", "d">>,
     refused |-> <<"r", "e", "f", "u", "s", "e", "d">>,
     declined |-> <<"d", "e", "c", "l", "i", "n", "e", "d">>,
     expired |-> <<"e", "x", "p", "i", "r", "e", "d">>,
     refunded |-> <<"r", "e", "f", "u", "n", "d", "e", "d">>,
     processing |-> <<"p", "r", "o", "c", "e", "s", "s", "i", "n", "g">>,
     initiated |-> <<"i", "n", "i", "t", "i", "a", "t", "e", "d">>,
     unknown |-> <<"u", "n", "k", "n", "o", "w", "n">>,
     completed |-> <<"c", "o", "m", "p", "l", "e", "t", "e", "d">>,
     transferred |-> <<"t", "r", "a", "n", "s", "f", "e", "r", "r", "e", "d">>]

\* TransactionStatus(value): the member with that value, or a ValueError
TransactionStatusOf(value) ==
    IF value.type = "str"
       /\ \E s \in DOMAIN StatusValue : StatusValue[s] = value.chars
    THEN [raised |-> None,
          value |-> CHOOSE s \in DOMAIN StatusValue : StatusValue[s] = value.chars]
    ELSE [raised |-> "ValueError", value |-> None]

\* SemoaAdapter.check_status.  It calls client.get without await: where get
\* is a coroutine function, what it holds is a coroutine that has no
\* status_code, and no request is sent.
SemoaCheckStatus(awaitable, response) ==
    LET requests == <<"orders/">>
        status == TransactionStatusOf(Get(response.code))
    IN IF awaitable
       THEN QueryRaises("AttributeError", 0, FALSE, <<>>)
       ELSE IF ~InRange200(response.status)
       THEN QueryRaises("TypeError", 0, FALSE, requests)
       ELSE IF status.raised # None
       THEN QueryRaises(status.raised, 0, FALSE, requests)
       ELSE QueryReturns("TransactionStatus", status.value, Major(0, 0),
                         requests)

\* the HTTP statuses of an answer: both ends of the range of success, the
\* first status above it, and 429
HttpStatuses == {200, 299, 300, 429}

\* a status each provider knows, as the provider writes it
KnownCode(adapter) ==
    CASE adapter = "PaystackAdapter" -> Str(<<"s", "u", "c", "c", "e", "s", "s">>)
      [] adapter = "AirtelMoneyAdapter" -> Str(<<"T", "S">>)
      [] adapter = "SemoaAdapter" -> Str(StatusValue["successful"])

\* the statuses of a transaction in a body: none, null, one the provider
\* knows, one it does not
CodeInputs(adapter) ==
    {PyAbsent, PyNone, KnownCode(adapter), Str(<<"x", "x">>)}

\* 100.00 in minor units
TenThousand == 10000

NumberInputs ==
    {NoNumber, NullNumber, Number(0), Number(TenThousand), Number(12345)}

\* The answers to a query: every HTTP status, with and without the
\* provider's flag, around a known status; at the first and at a later
\* status of success and at 300 and 429, every status of the transaction;
\* in a success, every amount.
QueryResponses(adapter) ==
    {QueryResponse(s, ok, KnownCode(adapter), Number(TenThousand)) :
        s \in HttpStatuses,
        ok \in IF adapter = "PaystackAdapter" THEN BOOLEAN ELSE {TRUE}}
    \cup {QueryResponse(s, TRUE, c, Number(TenThousand)) :
             s \in HttpStatuses, c \in CodeInputs(adapter)}
    \cup {QueryResponse(200, TRUE, KnownCode(adapter), a) : a \in NumberInputs}

\* a call of a query of an adapter and its outcome
QueryCalled(adapter, op, awaitable, tokenResponse, response, did) ==
    [adapter |-> adapter, op |-> op, awaitable |-> awaitable,
     tokenResponse |-> tokenResponse, response |-> response,
     cacheBefore |-> [token |-> accessToken, expiry |-> tokenExpiry],
     did |-> did]

Paystack_check_status(response) ==
    /\ adapterCall' = QueryCalled("PaystackAdapter", "check_status", FALSE,
                                  NoTokenResponse, response,
                                  PaystackCheckStatus(response))
    /\ UNCHANGED <<now, airtelConfig, accessToken, tokenExpiry>>
    /\ UNCHANGED <<dispatcherVars, tokenVars, httpVars>>

Airtel_check_status(tokenResponse, response) ==
    LET r == AirtelCheckStatus(tokenResponse, response)
    IN /\ adapterCall' = QueryCalled("AirtelMoneyAdapter", "check_status",
                                     FALSE, tokenResponse, response, r.did)
       /\ accessToken' = r.cache.token
       /\ tokenExpiry' = r.cache.expiry
       /\ UNCHANGED <<now, airtelConfig>>
       /\ UNCHANGED <<dispatcherVars, tokenVars, httpVars>>

Semoa_check_status(awaitable, response) ==
    /\ adapterCall' = QueryCalled("SemoaAdapter", "check_status", awaitable,
                                  NoTokenResponse, response,
                                  SemoaCheckStatus(awaitable, response))
    /\ UNCHANGED <<now, airtelConfig, accessToken, tokenExpiry>>
    /\ UNCHANGED <<dispatcherVars, tokenVars, httpVars>>

\* the answers to the requests a query sends
TokenAnswers(requests) ==
    IF Asks(requests, "/auth/oauth2/token") THEN TokenResponses
    ELSE {NoTokenResponse}

QueryAnswers(adapter, requests, endpoint) ==
    IF Asks(requests, endpoint) THEN QueryResponses(adapter)
    ELSE {NoQueryResponse}

\* ------------------------------------------------------------------------
\* Webhooks
\* ------------------------------------------------------------------------

\* a character outside ASCII
NonAscii == "U+00E9"

\* digestmod
Algorithm(adapter) ==
    IF adapter = "PaystackAdapter" THEN "sha512" ELSE "sha256"

\* hmac.new(key, msg, digestmod).hexdigest(), of an ideal MAC: two digests
\* are equal only for the same algorithm, key and message
Hmac(algorithm, key, msg) == <<algorithm>> \o key.chars \o <<"/">> \o msg

\* hmac.compare_digest(a, b), of two strings
CompareDigest(a, b) ==
    IF \E i \in 1..Len(b) : b[i] = NonAscii
    THEN [raised |-> "TypeError", value |-> FALSE]
    ELSE [raised |-> None, value |-> (a = b)]

\* the key of the signature
WebhookSecret(adapter, cfg) ==
    IF adapter = "PaystackAdapter" THEN Get(cfg.api_key)
    ELSE IF Truthy(Get(cfg.webhook_secret)) THEN cfg.webhook_secret
    ELSE cfg.api_key

\* the signature the headers hold
WebhookSignature(adapter, headers) ==
    IF adapter = "PaystackAdapter" THEN Get(headers.x_paystack_signature)
    ELSE IF Truthy(Get(headers.x_airtel_signature))
    THEN headers.x_airtel_signature
    ELSE Get(headers.x_signature)

\* validate_webhook comparing with ==
ValidateWebhookPlainCompare(adapter, cfg, raw_body, headers) ==
    LET signature == WebhookSignature(adapter, headers)
        secret_key == WebhookSecret(adapter, cfg)
    IN IF ~Truthy(signature) \/ ~Truthy(secret_key)
       THEN [raised |-> None, value |-> FALSE]
       ELSE [raised |-> None,
             value |-> Hmac(Algorithm(adapter), secret_key, raw_body)
                          = signature.chars]

\* validate_webhook(raw_body, headers)
ValidateWebhook(adapter, cfg, raw_body, headers) ==
    LET signature == WebhookSignature(adapter, headers)
        secret_key == WebhookSecret(adapter, cfg)
    IN IF ~Truthy(signature) \/ ~Truthy(secret_key)
       THEN [raised |-> None, value |-> FALSE]
       ELSE CompareDigest(Hmac(Algorithm(adapter), secret_key, raw_body),
                          signature.chars)

\* the payload of a webhook: the status of the transaction and its amount
WebhookPayload(code, amount) == [code |-> code, amount |-> amount]

\* json.dumps(payload, separators=(",", ":"), sort_keys=True).encode("utf-8")
Canonical(payload) ==
    <<"{", payload.amount.type, ToString(payload.amount.n), ",",
      payload.code.type>> \o payload.code.chars \o <<"}">>

NoEvent == [kind |-> None, status |-> None, amount |-> Major(0, 0)]

\* what parse_webhook did: the error it raised, what validate_webhook
\* answered, whether the fields of the payload were read, the event returned
WebhookRaises(kind, validated, read) ==
    [raised |-> kind, validated |-> validated, read |-> read,
     returned |-> NoEvent]

\* parse_webhook reading the payload before it checks the signature
ParseWebhookReadsFirst(adapter, cfg, payload, headers) ==
    LET v == ValidateWebhook(adapter, cfg, Canonical(payload), headers)
        status == IF adapter = "PaystackAdapter"
                  THEN NormalizeStatus(adapter, Get(payload.code))
                  ELSE NormalizeStatus(adapter,
                                       GetOr(payload.code, Str(<<"t", "n">>)))
        amount == IF adapter = "PaystackAdapter"
                  THEN [raised |-> None, value |-> PaystackMajor(payload.amount)]
                  ELSE AirtelAmount(payload.amount, 0)
    IN IF status.raised # None
       THEN WebhookRaises(status.raised, "not called", TRUE)
       ELSE IF amount.raised # None
       THEN WebhookRaises(amount.raised, "not called", TRUE)
       ELSE [raised |-> None, validated |-> "not called", read |-> TRUE,
             returned |-> [kind |-> "WebhookEvent", status |-> status.value,
                           amount |-> amount.value]]

\* parse_webhook(payload, headers)
ParseWebhook(adapter, cfg, payload, headers) ==
    LET v == ValidateWebhook(adapter, cfg, Canonical(payload), headers)
        status == IF adapter = "PaystackAdapter"
                  THEN NormalizeStatus(adapter, Get(payload.code))
                  ELSE NormalizeStatus(adapter,
                                       GetOr(payload.code, Str(<<"t", "n">>)))
        amount == IF adapter = "PaystackAdapter"
                  THEN [raised |-> None, value |-> PaystackMajor(payload.amount)]
                  ELSE AirtelAmount(payload.amount, 0)
    IN IF v.raised # None
       THEN WebhookRaises(v.raised, "raised", FALSE)
       ELSE IF ~v.value
       THEN WebhookRaises("PaymentError", "False", FALSE)
       ELSE IF status.raised # None
       THEN WebhookRaises(status.raised, "True", TRUE)
       ELSE IF amount.raised # None
       THEN WebhookRaises(amount.raised, "True", TRUE)
       ELSE [raised |-> None, validated |-> "True", read |-> TRUE,
             returned |-> [kind |-> "WebhookEvent", status |-> status.value,
                           amount |-> amount.value]]

\* the adapters that define validate_webhook and parse_webhook
WebhookAdapters == {"PaystackAdapter", "AirtelMoneyAdapter"}

\* the configs of an adapter: with and without an api_key, and with a
\* webhook_secret of its own
WebhookConfigs ==
    {[api_key |-> Str(<<"k", "1">>), webhook_secret |-> PyAbsent],
     [api_key |-> PyNone, webhook_secret |-> PyAbsent],
     [api_key |-> Str(<<"k", "1">>), webhook_secret |-> Str(<<"k", "2">>)]}

WebhookPayloads(adapter) ==
    {WebhookPayload(KnownCode(adapter), Number(TenThousand)),
     WebhookPayload(KnownCode(adapter), NoNumber),
     WebhookPayload(PyAbsent, Number(TenThousand)),
     WebhookPayload(Str(<<"x", "x">>), Number(12345))}

\* how the sender wrote the body: as parse_webhook writes it again (keys
\* sorted, no whitespace), with a space after each separator as json.dumps
\* writes by default, or with the keys in an order of its own
Layouts == {"compact", "spaced", "unsorted"}

\* the bytes of a payload written in a layout
Serialize(payload, layout) ==
    CASE layout = "compact" -> Canonical(payload)
      [] layout = "spaced" ->
           <<"{", payload.amount.type, ToString(payload.amount.n), ",", " ",
             payload.code.type>> \o payload.code.chars \o <<"}">>
      [] layout = "unsorted" ->
           <<"{", payload.code.type>> \o payload.code.chars
              \o <<",", payload.amount.type, ToString(payload.amount.n), "}">>

\* json.loads(raw_body): the payload the bytes were written from, whatever
\* the order of its keys and the whitespace
Loads(raw_body) ==
    CHOOSE payload \in UNION {WebhookPayloads(a) : a \in WebhookAdapters} :
        \E layout \in Layouts : Serialize(payload, layout) = raw_body

\* a sequence with its last element changed
Mutated(chars, to) == [chars EXCEPT ![Len(chars)] = to]

\* the bodies validate_webhook is given: those of the payloads, and one
\* with a byte changed
WebhookBodies(adapter) ==
    {Canonical(p) : p \in WebhookPayloads(adapter)}
    \cup {Mutated(Canonical(WebhookPayload(KnownCode(adapter),
                                           Number(TenThousand))), "]")}

OtherAlgorithm(adapter) ==
    IF adapter = "PaystackAdapter" THEN "sha256" ELSE "sha512"

\* The signatures a sender may give for a body: the digest under the key
\* of the config, that digest with its last character changed, to an ASCII
\* one and to another, the digests under the other algorithm, under another
\* key and of another body, and the empty string
SignatureInputs(adapter, cfg, raw_body) ==
    LET key == IF Truthy(WebhookSecret(adapter, cfg))
               THEN WebhookSecret(adapter, cfg) ELSE Str(<<"k", "1">>)
        right == Hmac(Algorithm(adapter), key, raw_body)
    IN {Str(right), Str(Mutated(right, "0")), Str(Mutated(right, NonAscii)),
        Str(Hmac(OtherAlgorithm(adapter), key, raw_body)),
        Str(Hmac(Algorithm(adapter), Str(<<"k", "3">>), raw_body)),
        Str(Hmac(Algorithm(adapter), key, Mutated(raw_body, "]"))),
        Str(<<>>)}

NoHeaders ==
    [x_paystack_signature |-> PyAbsent, x_airtel_signature |-> PyAbsent,
     x_signature |-> PyAbsent]

\* the headers: none, each signature under the provider's header, and the
\* digest under each of the other headers
HeaderInputs(adapter, cfg, raw_body) ==
    LET right == Str(Hmac(Algorithm(adapter),
                          IF Truthy(WebhookSecret(adapter, cfg))
                          THEN WebhookSecret(adapter, cfg) ELSE Str(<<"k", "1">>),
                          raw_body))
    IN {NoHeaders}
       \cup {IF adapter = "PaystackAdapter"
             THEN [NoHeaders EXCEPT !.x_paystack_signature = s]
             ELSE [NoHeaders EXCEPT !.x_airtel_signature = s] :
             s \in SignatureInputs(adapter, cfg, raw_body)}
       \cup {[NoHeaders EXCEPT !.x_signature = right],
             IF adapter = "PaystackAdapter"
             THEN [NoHeaders EXCEPT !.x_airtel_signature = right]
             ELSE [NoHeaders EXCEPT !.x_paystack_signature = right]}

validate_webhook(adapter, cfg, raw_body, headers) ==
    /\ adapterCall' = [adapter |-> adapter, op |-> "validate_webhook",
                       cfg |-> cfg, raw_body |-> raw_body, headers |-> headers,
                       did |-> ValidateWebhook(adapter, cfg, raw_body, headers)]
    /\ UNCHANGED <<now, airtelConfig, accessToken, tokenExpiry>>
    /\ UNCHANGED <<dispatcherVars, tokenVars, httpVars>>

\* the application decodes the body it received and gives the payload to
\* parse_webhook
parse_webhook(adapter, cfg, raw_body, headers) ==
    /\ adapterCall' = [adapter |-> adapter, op |-> "parse_webhook",
                       cfg |-> cfg, raw_body |-> raw_body,
                       payload |-> Loads(raw_body), headers |-> headers,
                       did |-> ParseWebhook(adapter, cfg, Loads(raw_body),
                                            headers)]
    /\ UNCHANGED <<now, airtelConfig, accessToken, tokenExpiry>>
    /\ UNCHANGED <<dispatcherVars, tokenVars, httpVars>>

\* ------------------------------------------------------------------------
\* Cancellation
\* ------------------------------------------------------------------------

\* a cancellation that does nothing and returns None
PaystackCancelTransactionSilently(transaction_id) ==
    QueryReturns("NoneType", None, Major(0, 0), <<>>)

\* PaystackAdapter.cancel_transaction
PaystackCancelTransaction(transaction_id) ==
    QueryRaises("UnsupportedOperationError", 0, FALSE, <<>>)

\* AirtelMoneyAdapter.cancel_transaction
AirtelCancelTransaction(transaction_id) ==
    QueryRaises("UnsupportedOperationError", 0, FALSE, <<>>)

\* the ids of a transaction: one of a transaction, the empty one, none
TransactionIds == {Str(<<"t", "x", "_", "1">>), Str(<<>>), PyNone}

Paystack_cancel_transaction(transaction_id) ==
    /\ adapterCall' = [adapter |-> "PaystackAdapter", op |-> "cancel_transaction",
                       transaction_id |-> transaction_id,
                       did |-> PaystackCancelTransaction(transaction_id)]
    /\ UNCHANGED <<now, airtelConfig, accessToken, tokenExpiry>>
    /\ UNCHANGED <<dispatcherVars, tokenVars, httpVars>>

Airtel_cancel_transaction(transaction_id) ==
    /\ adapterCall' = [adapter |-> "AirtelMoneyAdapter", op |-> "cancel_transaction",
                       transaction_id |-> transaction_id,
                       cacheBefore |-> [token |-> accessToken, expiry |-> tokenExpiry],
                       did |-> AirtelCancelTransaction(transaction_id)]
    /\ UNCHANGED <<now, airtelConfig, accessToken, tokenExpiry>>
    /\ UNCHANGED <<dispatcherVars, tokenVars, httpVars>>

\* ------------------------------------------------------------------------
\* The HTTP client
\* ------------------------------------------------------------------------

\* what aiohttp did: it answered, it raised a ClientError (the connection
\* failed), or the total timeout of the session ran out, which aiohttp
\* raises as asyncio.TimeoutError, no ClientError, or the body that came with
\* 'application/json' was no JSON and response.json() raised JSONDecodeError
Transports == {"answered", "ClientError", "TimeoutError", "JSONDecodeError"}

\* get, post, put, delete, patch: the method each gives _make_request
Methods == {"GET", "POST", "PUT", "DELETE", "PATCH"}

\* _make_request calling the session again after a failure of the transport
MakeRequestTriesAgain(transport, response) ==
    IF transport = "ClientError"
    THEN [raised |-> "NetworkError", status_code |-> 0, body |-> FALSE,
          returned |-> NoResult, requests |-> <<"endpoint", "endpoint">>]
    ELSE IF transport = "TimeoutError"
    THEN [raised |-> "TimeoutError", status_code |-> 0, body |-> FALSE,
          returned |-> NoResult, requests |-> <<"endpoint", "endpoint">>]
    ELSE IF transport = "JSONDecodeError"
    THEN [raised |-> "APIError", status_code |-> 0, body |-> FALSE,
          returned |-> NoResult, requests |-> <<"endpoint">>]
    ELSE IF response.status = 429
    THEN [raised |-> "RateLimitError", status_code |-> response.status,
          body |-> TRUE, returned |-> NoResult, requests |-> <<"endpoint">>]
    ELSE IF ~InRange200(response.status)
    THEN [raised |-> "APIError", status_code |-> response.status,
          body |-> TRUE, returned |-> NoResult, requests |-> <<"endpoint">>]
    ELSE [raised |-> None, status_code |-> 0, body |-> FALSE,
          returned |-> [kind |-> "dict", status |-> None, amount |-> Major(0, 0)],
          requests |-> <<"endpoint">>]

\* HTTPClient._make_request
MakeRequest(transport, response) ==
    LET requests == <<"endpoint">>
    IN IF transport = "ClientError"
       THEN QueryRaises("NetworkError", 0, FALSE, requests)
       ELSE IF transport = "TimeoutError"
       THEN QueryRaises("TimeoutError", 0, FALSE, requests)
       ELSE IF transport = "JSONDecodeError"
       THEN QueryRaises("APIError", 0, FALSE, requests)
       ELSE IF response.status = 429
       THEN QueryRaises("RateLimitError", response.status, TRUE, requests)
       ELSE IF ~InRange200(response.status)
       THEN QueryRaises("APIError", response.status, TRUE, requests)
       ELSE QueryReturns("dict", None, Major(0, 0), requests)

\* get, post, put, delete or patch: one call of _make_request
HTTPClient_make_request(method, transport, response) ==
    /\ adapterCall' = [adapter |-> "HTTPClient", op |-> "_make_request",
                       method |-> method,
                       transport |-> transport, response |-> response,
                       did |-> MakeRequest(transport, response)]
    /\ UNCHANGED <<now, airtelConfig, accessToken, tokenExpiry>>
    /\ UNCHANGED <<dispatcherVars, tokenVars, httpVars>>

\* ------------------------------------------------------------------------
\* Refunds and details of a transaction
\* ------------------------------------------------------------------------

\* x or y, of numbers
NumberOr(x, y) == IF x.type = "int" /\ x.n # 0 THEN x ELSE y

\* PaystackAdapter.refund: the amount of the response is the body's, in
\* kobo, or else the one asked for, each divided by 100
PaystackRefund(amount, response) ==
    LET requests == <<"/refund">>
        status == NormalizeStatus("PaystackAdapter", Get(response.code))
    IN IF ~(InRange200(response.status) /\ response.ok)
       THEN QueryRaises("PaymentError", response.status, TRUE, requests)
       ELSE IF status.raised # None
       THEN QueryRaises(status.raised, 0, FALSE, requests)
       ELSE QueryReturns("PaymentResponse", status.value,
                         PaystackMajor(NumberOr(response.amount,
                                                NumberOr(amount, Number(0)))),
                         requests)

\* PaystackAdapter.get_transaction_detail, of a body without dates
PaystackGetTransactionDetail(response) ==
    LET requests == <<"/transaction/">>
        status == NormalizeStatus("PaystackAdapter", Get(response.code))
    IN IF ~(InRange200(response.status) /\ response.ok)
       THEN QueryRaises("PaymentError", response.status, TRUE, requests)
       ELSE IF status.raised # None
       THEN QueryRaises(status.raised, 0, FALSE, requests)
       ELSE QueryReturns("TransactionDetail", status.value,
                         PaystackMajor(response.amount), requests)

\* AirtelMoneyAdapter.refund, and the cache of the token after it
AirtelRefund(amount, tokenResponse, response) ==
    LET got == AirtelGetAccessToken(tokenResponse)
        requests == got.requests \o <<"/standard/v1/payments/refund">>
        status == NormalizeStatus("AirtelMoneyAdapter",
                                  GetOr(response.code, Str(<<"t", "p">>)))
        refunded == AirtelAmount(response.amount,
                                 NumberOr(amount, Number(0)).n)
    IN IF got.raised # None
       THEN [did |-> QueryRaises(got.raised, got.status_code,
                                 got.status_code # 0, got.requests),
             cache |-> got.cache]
       ELSE IF ~InRange200(response.status)
       THEN [did |-> QueryRaises("PaymentError", response.status, TRUE, requests),
             cache |-> got.cache]
       ELSE IF status.raised # None
       THEN [did |-> QueryRaises(status.raised, 0, FALSE, requests),
             cache |-> got.cache]
       ELSE IF refunded.raised # None
       THEN [did |-> QueryRaises(refunded.raised, 0, FALSE, requests),
             cache |-> got.cache]
       ELSE [did |-> QueryReturns("PaymentResponse", status.value,
                                  refunded.value, requests),
             cache |-> got.cache]

\* AirtelMoneyAdapter.get_transaction_detail, of a body without dates, and
\* the cache of the token after it
AirtelGetTransactionDetail(tokenResponse, response) ==
    LET got == AirtelGetAccessToken(tokenResponse)
        requests == got.requests \o <<"/standard/v1/payments/">>
        status == NormalizeStatus("AirtelMoneyAdapter",
                                  GetOr(response.code, Str(<<"t", "n">>)))
        amount == AirtelAmount(response.amount, 0)
    IN IF got.raised # None
       THEN [did |-> QueryRaises(got.raised, got.status_code,
                                 got.status_code # 0, got.requests),
             cache |-> got.cache]
       ELSE IF ~InRange200(response.status)
       THEN [did |-> QueryRaises("PaymentError", response.status, TRUE, requests),
             cache |-> got.cache]
       ELSE IF amount.raised # None
       THEN [did |-> QueryRaises(amount.raised, 0, FALSE, requests),
             cache |-> got.cache]
       ELSE IF status.raised # None
       THEN [did |-> QueryRaises(status.raised, 0, FALSE, requests),
             cache |-> got.cache]
       ELSE [did |-> QueryReturns("TransactionDetail", status.value,
                                  amount.value, requests),
             cache |-> got.cache]

\* the amounts asked of refund: none, and 50
RefundAmounts == {NullNumber, Number(50)}

\* a call of refund and its outcome
RefundCalled(adapter, amount, tokenResponse, response, did) ==
    [adapter |-> adapter, op |-> "refund", amount |-> amount,
     tokenResponse |-> tokenResponse, response |-> response,
     cacheBefore |-> [token |-> accessToken, expiry |-> tokenExpiry],
     did |-> did]

Paystack_refund(amount, response) ==
    /\ adapterCall' = RefundCalled("PaystackAdapter", amount, NoTokenResponse,
                                   response, PaystackRefund(amount, response))
    /\ UNCHANGED <<now, airtelConfig, accessToken, tokenExpiry>>
    /\ UNCHANGED <<dispatcherVars, tokenVars, httpVars>>

Airtel_refund(amount, tokenResponse, response) ==
    LET r == AirtelRefund(amount, tokenResponse, response)
    IN /\ adapterCall' = RefundCalled("AirtelMoneyAdapter", amount,
                                      tokenResponse, response, r.did)
       /\ accessToken' = r.cache.token
       /\ tokenExpiry' = r.cache.expiry
       /\ UNCHANGED <<now, airtelConfig>>
       /\ UNCHANGED <<dispatcherVars, tokenVars, httpVars>>

Paystack_get_transaction_detail(response) ==
    /\ adapterCall' = QueryCalled("PaystackAdapter", "get_transaction_detail",
                                  FALSE, NoTokenResponse, response,
                                  PaystackGetTransactionDetail(response))
    /\ UNCHANGED <<now, airtelConfig, accessToken, tokenExpiry>>
    /\ UNCHANGED <<dispatcherVars, tokenVars, httpVars>>

Airtel_get_transaction_detail(tokenResponse, response) ==
    LET r == AirtelGetTransactionDetail(tokenResponse, response)
    IN /\ adapterCall' = QueryCalled("AirtelMoneyAdapter",
                                     "get_transaction_detail", FALSE,
                                     tokenResponse, response, r.did)
       /\ accessToken' = r.cache.token
       /\ tokenExpiry' = r.cache.expiry
       /\ UNCHANGED <<now, airtelConfig>>
       /\ UNCHANGED <<dispatcherVars, tokenVars, httpVars>>

\* ------------------------------------------------------------------------
\* The predicates of a PaymentResponse
\* ------------------------------------------------------------------------

\* the statuses a PaymentResponse is built with: the members of
\* TransactionStatus, a string that is none of them, and None
StatusFields == TransactionStatus \cup {"success", None}

\* the responses the predicates are asked of: every status, with other
\* fields that differ
PaymentResponses ==
    {[status |-> s, amount |-> a, currency |-> c, reference |-> r] :
        s \in StatusFields, a \in {0, FiveHundred}, c \in {"NGN"},
        r \in {PyNone, Str(<<"r", "e", "f">>)}}

\* the three properties of a response, read one after the other
PaymentResponse_predicates(response) ==
    /\ adapterCall' = [adapter |-> "PaymentResponse", op |-> "predicates",
                       response |-> response,
                       did |-> [is_successful |-> is_successful(response),
                                is_pending |-> is_pending(response),
                                is_failed |-> is_failed(response)]]
    /\ UNCHANGED <<now, airtelConfig, accessToken, tokenExpiry>>
    /\ UNCHANGED <<dispatcherVars, tokenVars, httpVars>>

\* SemoaAdapter.cancel_transaction: the DELETE is sent when the client's
\* delete is a plain function and only prepared when it is a coroutine (it
\* is not awaited); the return statement then reads a name the function
\* does not have.
SemoaCancelTransaction(transaction_id, awaitable, response) ==
    QueryRaises("NameError", 0, FALSE,
                IF awaitable THEN <<>> ELSE <<"DELETE orders/">>)

Semoa_cancel_transaction(transaction_id, awaitable, response) ==
    /\ adapterCall' = [adapter |-> "SemoaAdapter", op |-> "cancel_transaction",
                       transaction_id |-> transaction_id,
                       awaitable |-> awaitable, response |-> response,
                       did |-> SemoaCancelTransaction(transaction_id, awaitable,
                                                      response)]
    /\ UNCHANGED <<now, airtelConfig, accessToken, tokenExpiry>>
    /\ UNCHANGED <<dispatcherVars, tokenVars, httpVars>>

\* ------------------------------------------------------------------------
\* The session of a request
\* ------------------------------------------------------------------------

\* the answers a request in flight may get
SessionResponses ==
    {QueryResponse(s, TRUE, KnownCode("PaystackAdapter"), Number(TenThousand)) :
        s \in HttpStatuses}

\* `async with aiohttp.ClientSession(...) as session` is entered
OpenSession(r) ==
    /\ inFlight[r].pc = "idle"
    /\ inFlight' = [inFlight EXCEPT ![r].pc = "session"]
    /\ sessions' = sessions \cup {r}
    /\ UNCHANGED <<dispatcherVars, adapterVars, tokenVars>>

\* Inside the block session.request is awaited and the body is read: the
\* provider answers, or aiohttp raises, and the block is left by `return
\* response_data` or by the exception.
SessionRequest(r, transport, response) ==
    /\ inFlight[r].pc = "session"
    /\ inFlight' = [inFlight EXCEPT ![r].pc = "leaving",
                                    ![r].transport = transport,
                                    ![r].status = response.status]
    /\ UNCHANGED sessions
    /\ UNCHANGED <<dispatcherVars, adapterVars, tokenVars>>

\* a session that is closed only when the block is left by `return`
SessionsAfterReturnOnly(r, raised, open) ==
    IF raised = None THEN open \ {r} ELSE open

\* ClientSession.__aexit__ runs however the block of `async with` is left,
\* and closes the session
SessionsAfterExit(r, raised, open) == open \ {r}

\* __aexit__ closes the session; then the `except` clauses of _make_request
\* translate the exception, and the call ends
CloseSession(r) ==
    LET did == MakeRequest(inFlight[r].transport, [status |-> inFlight[r].status])
    IN /\ inFlight[r].pc = "leaving"
       /\ sessions' = SessionsAfterExit(r, did.raised, sessions)
       /\ inFlight' = [inFlight EXCEPT ![r].pc = "done",
                                       ![r].raised = did.raised]
       /\ UNCHANGED <<dispatcherVars, adapterVars, tokenVars>>

\* the caller has the result or the error
EndRequest(r) ==
    /\ inFlight[r].pc = "done"
    /\ inFlight' = [inFlight EXCEPT ![r] = NotRequesting]
    /\ UNCHANGED sessions
    /\ UNCHANGED <<dispatcherVars, adapterVars, tokenVars>>

\* The adapters as they are after AirtelMoneyAdapter fetched a token that
\* is still good.
ContractInit ==
    /\ config = [providers |-> <<>>, default_provider |-> None]
    /\ given = [called |-> FALSE, providers |-> <<>>, default_provider |-> None]
    /\ ctorDid = [p \in DOMAIN AdaptersRegistry |-> "ok"]
    /\ constructed = FALSE
    /\ integrators = EmptyMap
    /\ ctorRaised = NoError
    /\ ctorCalls = <<>>
    /\ call = NoCall
    /\ now = 0
    /\ accessToken = Str(<<"t", "1">>)
    /\ tokenExpiry = [set |-> TRUE, at |-> 3600 - 300]
    /\ adapterCall = NoAdapterCall
    /\ airtelConfig = [client_id |-> TRUE, client_secret |-> TRUE]
    /\ TokenIdle
    /\ NoRequestInFlight

ContractNext ==
    \/ \E a \in Normalizers : \E s \in StatusInputs : get_normalize_status(a, s)
    \/ \E a \in WebhookAdapters : \E c \in WebhookConfigs :
          \E b \in Inputs(WebhookBodies(a)) : \E h \in Inputs(HeaderInputs(a, c, b)) :
             validate_webhook(a, c, b, h)
    \/ \E a \in WebhookAdapters : \E c \in WebhookConfigs :
          \E p \in Inputs(WebhookPayloads(a)) : \E l \in Layouts :
             \E h \in Inputs(HeaderInputs(a, c, Canonical(p))
                              \cup HeaderInputs(a, c, Serialize(p, l))) :
                parse_webhook(a, c, Serialize(p, l), h)
    \/ \E r \in Inputs(QueryResponses("PaystackAdapter")) : Paystack_check_status(r)
    \/ \E k \in Inputs(TokenAnswers(AirtelCheckStatus(NoTokenResponse,
                                                      NoQueryResponse).did.requests)) :
          \E r \in Inputs(QueryAnswers("AirtelMoneyAdapter",
                                       AirtelCheckStatus(k, NoQueryResponse).did.requests,
                                       "/standard/v1/payments/")) :
             Airtel_check_status(k, r)
    \/ \E w \in BOOLEAN :
          \E r \in Inputs(QueryAnswers("SemoaAdapter",
                                       SemoaCheckStatus(w, NoQueryResponse).requests,
                                       "orders/")) :
             Semoa_check_status(w, r)
    \/ \E t \in TransactionIds : Paystack_cancel_transaction(t)
    \/ \E t \in TransactionIds : Airtel_cancel_transaction(t)
    \/ \E m \in Methods : \E r \in Inputs(QueryResponses("PaystackAdapter")) :
          HTTPClient_make_request(m, "answered", r)
    \/ \E m \in Methods : \E t \in Inputs(Transports \ {"answered"}) :
          HTTPClient_make_request(m, t, NoQueryResponse)
    \/ \E a \in RefundAmounts : \E r \in Inputs(QueryResponses("PaystackAdapter")) :
          Paystack_refund(a, r)
    \/ \E a \in RefundAmounts :
          \E k \in Inputs(TokenAnswers(AirtelRefund(a, NoTokenResponse,
                                                    NoQueryResponse).did.requests)) :
             \E r \in Inputs(QueryAnswers("AirtelMoneyAdapter",
                                          AirtelRefund(a, k, NoQueryResponse).did.requests,
                                          "/standard/v1/payments/refund")) :
                Airtel_refund(a, k, r)
    \/ \E r \in Inputs(QueryResponses("PaystackAdapter")) :
          Paystack_get_transaction_detail(r)
    \/ \E k \in Inputs(TokenAnswers(AirtelGetTransactionDetail(NoTokenResponse,
                                                               NoQueryResponse).did.requests)) :
          \E r \in Inputs(QueryAnswers("AirtelMoneyAdapter",
                                       AirtelGetTransactionDetail(k, NoQueryResponse).did.requests,
                                       "/standard/v1/payments/")) :
             Airtel_get_transaction_detail(k, r)
    \/ \E r \in Inputs(PaystackAnswers(Transaction("NGN", FiveHundred, KnownCustomer))) :
          Paystack_send_payment(Transaction("NGN", FiveHundred, KnownCustomer), r)
    \/ \E k \in Inputs(AirtelTokenAnswers(Transaction("NGN", FiveHundred, KnownCustomer))) :
          \E r \in Inputs(AirtelAnswers(Transaction("NGN", FiveHundred, KnownCustomer), k)) :
             Airtel_send_payment(Transaction("NGN", FiveHundred, KnownCustomer), k, r)
    \/ \E r \in Inputs(SemoaAnswers(Transaction("XOF", FiveHundred, KnownCustomer))) :
          Semoa_send_payment(Transaction("XOF", FiveHundred, KnownCustomer), r)
    \/ \E r \in PaymentResponses : PaymentResponse_predicates(r)
    \/ \E t \in TransactionIds : \E w \in BOOLEAN :
          \E r \in Inputs(QueryAnswers("SemoaAdapter",
                                       SemoaCancelTransaction(t, w, NoQueryResponse).requests,
                                       "DELETE orders/")) :
             Semoa_cancel_transaction(t, w, r)

ContractSpec == ContractInit /\ [][ContractNext]_vars

\* One Airtel adapter, with its credentials, called by several tasks at once.
TokenInit ==
    /\ config = [providers |-> <<>>, default_provider |-> None]
    /\ given = [called |-> FALSE, providers |-> <<>>, default_provider |-> None]
    /\ ctorDid = [p \in DOMAIN AdaptersRegistry |-> "ok"]
    /\ constructed = FALSE
    /\ integrators = EmptyMap
    /\ ctorRaised = NoError
    /\ ctorCalls = <<>>
    /\ call = NoCall
    /\ AdapterIdle
    /\ airtelConfig \in [client_id : BOOLEAN, client_secret : {TRUE}]
    /\ TokenIdle
    /\ NoRequestInFlight

TokenNext ==
    \/ \E c \in Callers : Enter(c)
    \/ \E c \in Callers : \E k \in TokenResponses : Complete(c, k)
    \/ \E c \in Callers : Return(c)
    \/ Tick

TokenSpec == TokenInit /\ [][TokenNext]_vars

\* Calls of HTTPClient._make_request on one client, interleaved at their
\* awaits.
HttpInit ==
    /\ config = [providers |-> <<>>, default_provider |-> None]
    /\ given = [called |-> FALSE, providers |-> <<>>, default_provider |-> None]
    /\ ctorDid = [p \in DOMAIN AdaptersRegistry |-> "ok"]
    /\ constructed = FALSE
    /\ integrators = EmptyMap
    /\ ctorRaised = NoError
    /\ ctorCalls = <<>>
    /\ call = NoCall
    /\ AdapterIdle
    /\ airtelConfig = [client_id |-> TRUE, client_secret |-> TRUE]
    /\ TokenIdle
    /\ NoRequestInFlight

HttpNext ==
    \/ \E r \in Requests : OpenSession(r)
    \/ \E r \in Requests : \E k \in SessionResponses :
          SessionRequest(r, "answered", k)
    \/ \E r \in Requests : \E t \in Inputs(Transports \ {"answered"}) :
          SessionRequest(r, t, NoQueryResponse)
    \/ \E r \in Requests : CloseSession(r)
    \/ \E r \in Requests : EndRequest(r)

HttpSpec == HttpInit /\ [][HttpNext]_vars

\* ------------------------------------------------------------------------
\* Properties of the dispatcher
\* ------------------------------------------------------------------------

GivenKeys == {given.providers[i] : i \in 1..Len(given.providers)}

\* the configuration given to the constructor passes _validate_providers
GivenIsValid ==
    /\ given.called
    /\ Len(given.providers) > 0
    /\ given.default_provider # None => given.default_provider \in GivenKeys

\* instantiating the adapter of this configured provider fails
FailsToInstantiate(name) ==
    IF name \in Provider /\ name \in DOMAIN AdaptersRegistry
    THEN ctorDid[name] # "ok"
    ELSE TRUE

\* ... with a ValueError: of Provider(name) or of the adapter's constructor
FailsWithValueError(name) ==
    IF name \notin Provider THEN TRUE
    ELSE IF name \in DOMAIN AdaptersRegistry THEN ctorDid[name] = "ValueError"
    ELSE FALSE

SomeProviderFails ==
    \E i \in 1..Len(given.providers) : FailsToInstantiate(given.providers[i])

\* the first configured provider, in iteration order, that fails
FirstFailing ==
    LET i == CHOOSE k \in 1..Len(given.providers) :
                 /\ FailsToInstantiate(given.providers[k])
                 /\ \A j \in 1..(k - 1) : ~FailsToInstantiate(given.providers[j])
    IN given.providers[i]

\* C1: constructing the client from a configuration with no providers raises
\* ConfigurationError and yields no client.
C1_EmptyProvidersRejected ==
    (given.called /\ Len(given.providers) = 0) =>
        /\ ~constructed
        /\ integrators = EmptyMap
        /\ ctorRaised.kind = "ConfigurationError"

C1_Witness == given.called /\ Len(given.providers) = 0 /\ ~constructed

\* C2: constructing the client from a configuration whose default_provider
\* is no key of providers raises ConfigurationError, and no adapter
\* constructor has been called before.
C2_UnconfiguredDefaultRejected ==
    (given.called /\ given.default_provider # None
        /\ given.default_provider \notin GivenKeys) =>
        /\ ~constructed
        /\ ctorRaised.kind = "ConfigurationError"
        /\ ctorCalls = <<>>

C2_Witness ==
    /\ given.called
    /\ given.default_provider # None
    /\ given.default_provider \notin GivenKeys
    /\ \E p \in GivenKeys : ~FailsToInstantiate(p)
    /\ ~constructed

\* C3: when the configuration names no default provider and construction
\* succeeds, the default provider is the first key of providers.
C3_DefaultIsFirstProvider ==
    (constructed /\ given.default_provider = None) =>
        /\ Len(given.providers) >= 1
        /\ config.default_provider = given.providers[1]

C3_Witness ==
    /\ constructed
    /\ given.default_provider = None
    /\ Len(given.providers) = 2

\* C4 as stated: every failure to instantiate the adapter of a configured
\* provider is reported as a ConfigurationError naming that provider.
C4_AlwaysConfigurationError ==
    (GivenIsValid /\ SomeProviderFails) =>
        ctorRaised = [kind |-> "ConfigurationError", provider |-> FirstFailing]

\* C4 as amended: the failure is reported as an error naming that provider,
\* an InvalidProviderError when the failure is a ValueError (a name that is
\* no member of Provider, a constructor raising ValueError) and a
\* ConfigurationError otherwise.
C4_ErrorNamesProvider ==
    (GivenIsValid /\ SomeProviderFails) =>
        /\ ctorRaised.provider = FirstFailing
        /\ ctorRaised.kind = IF FailsWithValueError(FirstFailing)
                              THEN "InvalidProviderError"
                              ELSE "ConfigurationError"

C4_Witness ==
    /\ GivenIsValid
    /\ SomeProviderFails
    /\ FailsWithValueError(FirstFailing)
    /\ ctorRaised.kind = "InvalidProviderError"

\* C5: a client that exists holds exactly the adapters of the configured
\* providers, each of its registered class; when one provider fails there
\* is no client, whatever adapters were built before the failure.
C5_AllOrNothing ==
    /\ constructed =>
          /\ DOMAIN integrators = GivenKeys
          /\ \A p \in GivenKeys : integrators[p] = AdaptersRegistry[p]
    /\ (GivenIsValid /\ SomeProviderFails) =>
          (~constructed /\ integrators = EmptyMap)

C5_Witness ==
    /\ GivenIsValid
    /\ SomeProviderFails
    /\ Len(ctorCalls) = 2
    /\ ~constructed

\* C6: a public operation resolves the provider it is given, or the default
\* provider when given none; when the client has no adapter for it the call
\* raises InvalidProviderError listing the configured providers and invokes
\* no adapter; otherwise the adapter it uses is the resolved provider's.
C6_ProviderResolution ==
    call.op # None =>
        LET resolved == IF call.provider # None THEN call.provider
                        ELSE config.default_provider
        IN /\ call.resolved = resolved
           /\ resolved \notin DOMAIN integrators =>
                 /\ call.result = [kind |-> "raise",
                                    value |-> "InvalidProviderError"]
                 /\ call.choices = config.providers
                 /\ call.invoked = 0
                 /\ call.adapter = None
           /\ resolved \in DOMAIN integrators =>
                 /\ call.adapter = integrators[resolved]
                 /\ call.result.value # "InvalidProviderError"

C6_Witness ==
    /\ call.op # None
    /\ call.provider # None
    /\ call.provider # config.default_provider
    /\ call.provider \notin DOMAIN integrators
    /\ call.result.value = "InvalidProviderError"

\* C7 as stated: each public operation reaches the resolved adapter's
\* operation of the same name, once, and returns what it returns.
C7_CallReachesAdapter ==
    (call.op # None /\ call.adapter # None) =>
        /\ call.invoked = 1
        /\ call.result = call.adapterDid

\* the dispatcher found the adapter and called its operation
Resolved == call.op # None /\ call.adapter # None

\* C19: a call of a public operation that resolves an adapter calls the
\* adapter's operation of the same name once, whether or not the call before
\* it was the same; the caller gets what that one call gave, a return or an
\* error of the adapter or the TypeError of a call that does not bind; a call
\* that resolves no adapter calls none.
C19_OneCallDeep ==
    call.op # None =>
        /\ Resolved => call.attempts = 1
        /\ ~Resolved => call.attempts = 0
        /\ call.invoked <= call.attempts
        /\ call.invoked = 1 => call.result = call.adapterDid
        /\ (Resolved /\ call.invoked = 0) =>
              call.result = [kind |-> "raise", value |-> "TypeError"]

\* a check_status that repeats the call before it: the adapter's operation
\* was called again, once, and its error reached the caller
C19_Witness ==
    /\ Resolved
    /\ call.repeated
    /\ call.op = "check_status"
    /\ call.attempts = 1
    /\ call.invoked = 1
    /\ call.result = [kind |-> "raise", value |-> "PaymentError"]

\* C28: a public operation, whether it returns, fails in the adapter or
\* resolves no adapter, leaves the map of the adapters and the default
\* provider as they were: only the constructor writes them.
C28_OperationsKeepTheRouter ==
    [][call'.op # None =>
          /\ integrators' = integrators
          /\ config'.default_provider = config.default_provider]_vars

\* a second call in a row failed in the adapter, and the client still holds
\* that adapter
C28_Witness ==
    /\ Resolved
    /\ call.repeated
    /\ call.result = [kind |-> "raise", value |-> "PaymentError"]
    /\ call.resolved \in DOMAIN integrators
    /\ integrators[call.resolved] = call.adapter

\* a call resolved no adapter and the client holds the adapters it was
\* built with
UnresolvedKeepsTheMap ==
    /\ call.op # None
    /\ call.result = [kind |-> "raise", value |-> "InvalidProviderError"]
    /\ DOMAIN integrators # {}

\* ------------------------------------------------------------------------
\* Claims about the adapters (AdapterSpec)
\* ------------------------------------------------------------------------

Sent == adapterCall.op = "send_payment"

Formatted == adapterCall.op = "format_transaction"

\* the call was of scenario A: 500 in a supported currency, from a customer
\* with a phone number and an email, and the provider answered with success
ScenarioA ==
    /\ Sent
    /\ adapterCall.transaction.amount = FiveHundred
    /\ adapterCall.transaction.currency \in SUPPORTED_CURRENCIES(adapterCall.adapter)
    /\ adapterCall.transaction.customer.present
    /\ Truthy(adapterCall.transaction.customer.phone_number)
    /\ Truthy(adapterCall.transaction.customer.email)
    /\ adapterCall.response.status \in 200..299
    /\ adapterCall.response.ok

PendingResponse(response) ==
    /\ response.status \in {"pending", "processing", "initiated"}
    /\ is_pending(response)
    /\ ~is_successful(response)
    /\ ~is_failed(response)

CarriesPaystackData ==
    adapterCall.adapter = "PaystackAdapter" =>
        /\ adapterCall.did.returned.reference =
              Get(Field(adapterCall.response, <<"r", "e", "f">>))
        /\ adapterCall.did.returned.payment_link =
              Get(Field(adapterCall.response, <<"u", "r", "l">>))

\* C8 as stated: every adapter's send_payment of scenario A returns a
\* PaymentResponse that is pending, and neither successful nor failed.
C8_AlwaysPending ==
    ScenarioA =>
        /\ adapterCall.did.raised = None
        /\ PendingResponse(adapterCall.did.returned)
        /\ CarriesPaystackData

\* the status codes Airtel's answer stands for "pending" with: none, or
\* TP or TA in either case
AirtelCodeIsPending ==
    \/ adapterCall.response.code.type = "absent"
    \/ Lower(adapterCall.response.code).chars \in {<<"t", "p">>, <<"t", "a">>}

\* C8, amended: a send_payment of scenario A returns a PaymentResponse; with
\* Paystack and Semoa it is pending (is_pending true, is_successful and
\* is_failed false), and Paystack's carries the provider's reference and
\* authorization URL as reference and payment_link; with Airtel Money it is
\* pending exactly when the answer holds no status code or the code TP or TA,
\* and successful when the code is TS.
C8_PendingUnlessAirtelSaysOtherwise ==
    ScenarioA =>
        /\ adapterCall.did.raised = None
        /\ CarriesPaystackData
        /\ adapterCall.adapter # "AirtelMoneyAdapter" =>
              PendingResponse(adapterCall.did.returned)
        /\ adapterCall.adapter = "AirtelMoneyAdapter" =>
              /\ AirtelCodeIsPending <=> is_pending(adapterCall.did.returned)
              /\ AirtelCodeIsPending => PendingResponse(adapterCall.did.returned)
              /\ Lower(adapterCall.response.code).chars = <<"t", "s">> =>
                    is_successful(adapterCall.did.returned)

\* Paystack answered a send_payment of scenario A with a reference and a URL
C8_Witness ==
    /\ ScenarioA
    /\ adapterCall.adapter = "PaystackAdapter"
    /\ adapterCall.response.full
    /\ adapterCall.did.returned.status = "pending"
    /\ adapterCall.did.returned.payment_link = Str(<<"u", "r", "l">>)

OutOfRangeAmount ==
    /\ adapterCall.transaction.currency \in SUPPORTED_CURRENCIES(adapterCall.adapter)
    /\ \/ adapterCall.transaction.amount <
             MIN_AMOUNT(adapterCall.adapter)[adapterCall.transaction.currency]
       \/ adapterCall.transaction.amount >
             MAX_AMOUNT(adapterCall.adapter)[adapterCall.transaction.currency]

\* C9: a send_payment with an amount outside the range of its (supported)
\* currency raises ValidationError and has sent no request, not even the
\* request for a token.
C9_OutOfRangeBeforeNetwork ==
    (Sent /\ OutOfRangeAmount) =>
        /\ adapterCall.did.raised = "ValidationError"
        /\ adapterCall.did.requests = <<>>

\* Airtel Money, holding credentials and no token, was sent an amount below
\* the minimum of a supported currency
C9_Witness ==
    /\ Sent /\ OutOfRangeAmount
    /\ adapterCall.adapter = "AirtelMoneyAdapter"
    /\ adapterCall.transaction.amount <
          MIN_AMOUNT(adapterCall.adapter)[adapterCall.transaction.currency]
    /\ airtelConfig.client_id /\ airtelConfig.client_secret
    /\ ~Truthy(adapterCall.cacheBefore.token)
    /\ adapterCall.did.raised = "ValidationError"

RequiredFieldAbsent ==
    \/ ~adapterCall.transaction.customer.present
    \/ ~Truthy(adapterCall.transaction.customer[
                   RequiredCustomerField(adapterCall.adapter)])

\* C10: format_transaction of a transaction whose customer lacks the field
\* the provider requires (the phone number for Airtel Money and Semoa, the
\* email for Paystack), or that has no customer at all, raises
\* ValidationError, and returns no payload.
C10_RequiredFieldValidated ==
    (Formatted /\ RequiredFieldAbsent) =>
        /\ adapterCall.did.raised = "ValidationError"
        /\ adapterCall.did.payload = NoPayload

\* Airtel Money formatted a transaction, valid but for the phone number
C10_Witness ==
    /\ Formatted /\ RequiredFieldAbsent
    /\ adapterCall.adapter = "AirtelMoneyAdapter"
    /\ adapterCall.transaction.customer.present
    /\ adapterCall.transaction.amount = FiveHundred
    /\ adapterCall.transaction.currency = "NGN"
    /\ adapterCall.did.raised = "ValidationError"

\* ------------------------------------------------------------------------
\* Properties of the other operations (ContractSpec)
\* ------------------------------------------------------------------------

Normalized == adapterCall.op = "get_normalize_status"

KnownCodes(adapter) ==
    IF adapter = "PaystackAdapter" THEN PaystackCodes ELSE AirtelCodes

\* C11: get_normalize_status of a string, in whatever case, does not raise
\* and returns a member of TransactionStatus: the one it returns for the
\* string in lower case and in upper case, and unknown exactly when the
\* string, in lower case, is none of the provider's codes.
C11_NormalizationIsTotal ==
    (Normalized /\ adapterCall.status.type = "str") =>
        LET s == adapterCall.status
            a == adapterCall.adapter
        IN /\ adapterCall.did.raised = None
           /\ adapterCall.did.value \in TransactionStatus
           /\ adapterCall.did.value = NormalizeStatus(a, Lower(s)).value
           /\ adapterCall.did.value = NormalizeStatus(a, Str(Upper(s.chars))).value
           /\ (Lower(s).chars \notin KnownCodes(a)) <=>
                 (adapterCall.did.value = "unknown")
           /\ (a = "PaystackAdapter"
               /\ Lower(s).chars = <<"s", "u", "c", "c", "e", "s", "s">>) =>
                 adapterCall.did.value = "successful"
           /\ (a = "AirtelMoneyAdapter" /\ Lower(s).chars = <<"t", "s">>) =>
                 adapterCall.did.value = "successful"

\* Paystack's "SUCCESS", in upper case, was normalized to successful
C11_Witness ==
    /\ Normalized
    /\ adapterCall.adapter = "PaystackAdapter"
    /\ adapterCall.status = Str(<<"S", "U", "C", "C", "E", "S", "S">>)
    /\ adapterCall.did.value = "successful"

Checked == adapterCall.op = "check_status"

\* the status the body gives the transaction is missing, or is none that
\* the provider's adapter knows
StatusCodeUnrecognized ==
    \/ adapterCall.response.code.type = "absent"
    \/ /\ adapterCall.response.code.type = "str"
       /\ adapterCall.adapter = "SemoaAdapter" =>
             ~\E s \in DOMAIN StatusValue :
                 StatusValue[s] = adapterCall.response.code.chars
       /\ adapterCall.adapter # "SemoaAdapter" =>
             Lower(adapterCall.response.code).chars
                 \notin KnownCodes(adapterCall.adapter)

\* C12 as stated: a check_status answered with a success whose status of
\* the transaction is missing or unrecognized returns a result whose status
\* is unknown, and does not raise.
C12_UnknownStatusIsNotFatal ==
    (/\ Checked
     /\ adapterCall.response.status \in 200..299
     /\ adapterCall.response.ok
     /\ adapterCall.response.amount.type = "int"
     /\ StatusCodeUnrecognized) =>
        /\ adapterCall.did.raised = None
        /\ adapterCall.did.returned.status = "unknown"

Validated == adapterCall.op = "validate_webhook"

\* the headers hold the digest of the body under the configured secret
SignatureIsRight ==
    /\ Truthy(WebhookSignature(adapterCall.adapter, adapterCall.headers))
    /\ Truthy(WebhookSecret(adapterCall.adapter, adapterCall.cfg))
    /\ WebhookSignature(adapterCall.adapter, adapterCall.headers).chars =
          Hmac(IF adapterCall.adapter = "PaystackAdapter" THEN "sha512"
               ELSE "sha256",
               WebhookSecret(adapterCall.adapter, adapterCall.cfg),
               adapterCall.raw_body)

\* C13 as stated: validate_webhook does not raise, and returns true exactly
\* when the signature header and the secret are present and the header is
\* the HMAC of the body under the secret (SHA-512 for Paystack, SHA-256 for
\* Airtel Money).
C13_SignatureDecides ==
    Validated =>
        /\ adapterCall.did.raised = None
        /\ adapterCall.did.value <=> SignatureIsRight

Parsed == adapterCall.op = "parse_webhook"

\* the headers hold the digest of these bytes under the configured secret
SignatureFits(raw_body) ==
    /\ Truthy(WebhookSignature(adapterCall.adapter, adapterCall.headers))
    /\ Truthy(WebhookSecret(adapterCall.adapter, adapterCall.cfg))
    /\ WebhookSignature(adapterCall.adapter, adapterCall.headers).chars =
          Hmac(Algorithm(adapterCall.adapter),
               WebhookSecret(adapterCall.adapter, adapterCall.cfg), raw_body)

SignatureIsAscii ==
    LET s == WebhookSignature(adapterCall.adapter, adapterCall.headers).chars
    IN \A i \in 1..Len(s) : s[i] # NonAscii

\* a signature and a secret are there, so the digests are compared, and the
\* signature holds a character the comparison does not take
ComparisonRaises ==
    /\ Truthy(WebhookSignature(adapterCall.adapter, adapterCall.headers))
    /\ Truthy(WebhookSecret(adapterCall.adapter, adapterCall.cfg))
    /\ ~SignatureIsAscii

ReturnedAnEvent == adapterCall.did.returned.kind = "WebhookEvent"

ValidatedTrue ==
    ValidateWebhook(adapterCall.adapter, adapterCall.cfg,
                    Canonical(adapterCall.payload), adapterCall.headers)
        = [raised |-> None, value |-> TRUE]

\* C14 as stated: parse_webhook returns a WebhookEvent only if
\* validate_webhook returned true for the payload and the headers; with a
\* wrong or missing signature it raises a WebhookValidation or Payment error,
\* has read no field of the payload, and returns no event.
C14_RejectsWithPaymentError ==
    Parsed =>
        /\ ReturnedAnEvent => ValidatedTrue
        /\ ~SignatureFits(Canonical(adapterCall.payload)) =>
              /\ adapterCall.did.raised
                    \in {"WebhookValidationError", "PaymentError"}
              /\ ~adapterCall.did.read
              /\ adapterCall.did.returned = NoEvent

\* C14, amended: parse_webhook returns a WebhookEvent only if
\* validate_webhook returned true for the payload and the headers; with a
\* wrong or missing signature it raises before it reads a field of the
\* payload and returns no event: it raises PaymentError, or the TypeError of
\* the comparison when a secret is configured and the signature holds a
\* character outside ASCII.
C14_VerifiesBeforeParsing ==
    Parsed =>
        /\ ReturnedAnEvent => (ValidatedTrue /\ adapterCall.did.validated = "True")
        /\ ~SignatureFits(Canonical(adapterCall.payload)) =>
              /\ adapterCall.did.raised =
                    IF ComparisonRaises THEN "TypeError" ELSE "PaymentError"
              /\ ~adapterCall.did.read
              /\ adapterCall.did.returned = NoEvent

\* a payload that would parse came with the digest of another body
C14_Witness ==
    /\ Parsed
    /\ Truthy(WebhookSignature(adapterCall.adapter, adapterCall.headers))
    /\ SignatureIsAscii
    /\ ~SignatureFits(Canonical(adapterCall.payload))
    /\ adapterCall.payload.code = KnownCode(adapterCall.adapter)
    /\ adapterCall.did.raised = "PaymentError"

Cancelled == adapterCall.op = "cancel_transaction"

\* the adapters whose provider has no cancel primitive
WithoutCancel == {"PaystackAdapter", "AirtelMoneyAdapter"}

\* C15: cancel_transaction of PaystackAdapter and of AirtelMoneyAdapter
\* raises UnsupportedOperationError for every transaction id, returns
\* nothing, and sends no request.
C15_CancelIsUnsupported ==
    (Cancelled /\ adapterCall.adapter \in WithoutCancel) =>
        /\ adapterCall.did.raised = "UnsupportedOperationError"
        /\ adapterCall.did.returned = NoResult
        /\ adapterCall.did.requests = <<>>

\* the cancellation of tx_1 was asked of PaystackAdapter
C15_Witness ==
    /\ Cancelled
    /\ adapterCall.adapter = "PaystackAdapter"
    /\ adapterCall.transaction_id = Str(<<"t", "x", "_", "1">>)
    /\ adapterCall.did.raised = "UnsupportedOperationError"

Requested == adapterCall.op = "_make_request" /\ adapterCall.transport = "answered"

\* the transport answered this call with a 429
RateLimited ==
    /\ Requested \/ Checked
    /\ adapterCall.did.requests # <<>>
    /\ adapterCall.response.status = 429

\* C16 as stated: a request of the HTTP client and a check_status of an
\* adapter that the transport answers with a 429 raise RateLimitError, with
\* the status code 429 and the body of the response.
C16_RateLimitIsDistinguished ==
    RateLimited =>
        /\ adapterCall.did.raised = "RateLimitError"
        /\ adapterCall.did.status_code = 429
        /\ adapterCall.did.body

\* the part of C16 about the HTTP client alone
RateLimitOfTheClient ==
    (Requested /\ adapterCall.response.status = 429) =>
        /\ adapterCall.did.raised = "RateLimitError"
        /\ adapterCall.did.status_code = 429
        /\ adapterCall.did.body

\* no check_status of an adapter raises RateLimitError
NoAdapterRateLimit ==
    Checked => adapterCall.did.raised # "RateLimitError"

\* the operations of an adapter that ask the provider
AskingOperations ==
    {"send_payment", "check_status", "refund", "get_transaction_detail"}

\* the errors that wrap an answer of the provider
ProviderErrors ==
    {"APIError", "PaymentError", "RefundError", "RateLimitError",
     "TransactionNotFoundError"}

\* the provider answered the operation's own request outside 200..299
AnsweredWithoutSuccess ==
    /\ adapterCall.op \in AskingOperations
    /\ adapterCall.response.status # 0
    /\ ~InRange200(adapterCall.response.status)

ReturnedNothing ==
    IF adapterCall.op = "send_payment"
    THEN adapterCall.did.returned = NoPaymentResponse
    ELSE adapterCall.did.returned = NoResult

\* the error, if any, carries the body of the response
CarriesTheBody ==
    adapterCall.op # "send_payment" => adapterCall.did.body

\* C17 as stated: send_payment, check_status, refund and
\* get_transaction_detail of an adapter, answered with an HTTP status outside
\* 200..299, raise a provider error that carries that status and the body of
\* the response, and return no result.
C17_NonSuccessIsAnError ==
    AnsweredWithoutSuccess =>
        /\ adapterCall.did.raised \in ProviderErrors
        /\ adapterCall.did.status_code = adapterCall.response.status
        /\ CarriesTheBody
        /\ ReturnedNothing

\* C17 without the check_status of PaystackAdapter and the operations of
\* SemoaAdapter
NonSuccessOfTheOthers ==
    (/\ AnsweredWithoutSuccess
     /\ adapterCall.adapter # "SemoaAdapter"
     /\ ~(adapterCall.adapter = "PaystackAdapter" /\ Checked)) =>
        /\ adapterCall.did.raised = "PaymentError"
        /\ adapterCall.did.status_code = adapterCall.response.status
        /\ CarriesTheBody
        /\ ReturnedNothing

\* the check_status of PaystackAdapter returns a result for an answer
\* outside 200..299
ResultWithoutSuccess ==
    /\ Checked
    /\ adapterCall.adapter = "PaystackAdapter"
    /\ ~InRange200(adapterCall.response.status)
    /\ adapterCall.did.returned.kind = "TransactionStatusResponse"

\* the operations of PaystackAdapter that read an amount from a payload of
\* the provider
ReadsAnAmount == {"check_status", "parse_webhook", "get_transaction_detail"}

PaystackRead ==
    /\ adapterCall.op \in ReadsAnAmount
    /\ adapterCall.adapter = "PaystackAdapter"
    /\ adapterCall.did.raised = None

\* the amount of the provider's payload
AmountRead ==
    IF Parsed THEN adapterCall.payload.amount ELSE adapterCall.response.amount

\* C18: the amount that check_status, parse_webhook and
\* get_transaction_detail of PaystackAdapter return is the amount N of the
\* provider's payload divided by 100 (whole.hundredths with
\* 100 * whole + hundredths = N), so 100 for 10000, and 0 when the payload
\* has no amount.
C18_AmountsInMajorUnits ==
    PaystackRead =>
        LET returned == adapterCall.did.returned.amount
        IN /\ returned.hundredths \in 0..99
           /\ AmountRead.type = "int" =>
                 100 * returned.whole + returned.hundredths = AmountRead.n
           /\ AmountRead = Number(TenThousand) => returned = Major(100, 0)
           /\ AmountRead.type # "int" => returned = Major(0, 0)

\* a verification answered with an amount of 10000
C18_Witness ==
    /\ PaystackRead
    /\ Checked
    /\ AmountRead = Number(TenThousand)
    /\ adapterCall.did.returned.amount = Major(100, 0)

\* each of the three operations returned an amount that is not whole
AmountWithHundredths ==
    /\ PaystackRead
    /\ adapterCall.did.returned.amount.hundredths # 0

\* each of the three operations read a payload without an amount
AmountMissing ==
    /\ PaystackRead
    /\ AmountRead.type # "int"

Asked == adapterCall.op = "predicates"

\* how many of the three predicates are true
PredicatesTrue ==
    (IF adapterCall.did.is_successful THEN 1 ELSE 0)
    + (IF adapterCall.did.is_pending THEN 1 ELSE 0)
    + (IF adapterCall.did.is_failed THEN 1 ELSE 0)

\* C20: whatever the other fields of a PaymentResponse, is_successful is
\* true exactly when its status is successful, is_pending exactly when it is
\* pending, processing or initiated, is_failed exactly when it is failed,
\* cancelled or expired; so at most one of the three is true.
C20_PredicatesFollowStatus ==
    Asked =>
        LET status == adapterCall.response.status
        IN /\ adapterCall.did.is_successful <=> status = "successful"
           /\ adapterCall.did.is_pending <=>
                 status \in {"pending", "processing", "initiated"}
           /\ adapterCall.did.is_failed <=>
                 status \in {"failed", "cancelled", "expired"}
           /\ PredicatesTrue <= 1

\* a response whose status is initiated is pending, and nothing else
C20_Witness ==
    /\ Asked
    /\ adapterCall.response.status = "initiated"
    /\ adapterCall.response.amount = FiveHundred
    /\ adapterCall.did.is_pending
    /\ PredicatesTrue = 1

\* C21 as stated: cancel_transaction of SemoaAdapter sends one DELETE for
\* the order and returns a boolean; it raises only a provider error, and
\* only when the provider did not answer with success.
C21_CancelReturnsAFlag ==
    (Cancelled /\ adapterCall.adapter = "SemoaAdapter") =>
        /\ adapterCall.did.requests = <<"DELETE orders/">>
        /\ adapterCall.did.raised = None =>
              adapterCall.did.returned.kind = "bool"
        /\ adapterCall.did.raised # None =>
              /\ adapterCall.did.raised \in ProviderErrors \cup {"CancellationError"}
              /\ ~InRange200(adapterCall.response.status)

\* every cancel_transaction of SemoaAdapter ends in NameError
SemoaCancelAlwaysRaises ==
    (Cancelled /\ adapterCall.adapter = "SemoaAdapter") =>
        adapterCall.did.raised = "NameError"

\* ------------------------------------------------------------------------
\* Properties of Airtel's token (AdapterSpec, TokenSpec)
\* ------------------------------------------------------------------------

TokenAsked == adapterCall.op = "_get_access_token"

\* a token was cached and had not expired when the call was made
CacheWasFresh ==
    /\ Truthy(adapterCall.cacheBefore.token)
    /\ adapterCall.cacheBefore.expiry.set
    /\ adapterCall.at < adapterCall.cacheBefore.expiry.at

CacheUntouched ==
    /\ adapterCall.did.cache = adapterCall.cacheBefore
    /\ accessToken = adapterCall.cacheBefore.token
    /\ tokenExpiry = adapterCall.cacheBefore.expiry

HasCredentials == airtelConfig.client_id /\ airtelConfig.client_secret

\* the expires_in of the answer, 3600 when it has none
ExpiresIn ==
    IF adapterCall.tokenResponse.expires_in.type = "absent" THEN 3600
    ELSE adapterCall.tokenResponse.expires_in.n

\* the call stored the token of the answer, to expire 300 seconds before
\* the provider says, and returned it
StoredAndReturned ==
    /\ adapterCall.did.raised = None
    /\ adapterCall.did.token = Get(adapterCall.tokenResponse.access_token)
    /\ accessToken = adapterCall.did.token
    /\ tokenExpiry = [set |-> TRUE, at |-> adapterCall.at + ExpiresIn - 300]

\* C22 as stated: _get_access_token returns the cached token without a
\* request exactly when a token is cached and has not expired; otherwise it
\* sends one request for a token and, on a 2xx answer, stores the token with
\* the expiry now + expires_in - 300 (expires_in 3600 by default) and
\* returns it.
C22_RefreshWheneverStale ==
    TokenAsked =>
        /\ CacheWasFresh =>
              /\ adapterCall.did.requests = <<>>
              /\ adapterCall.did.raised = None
              /\ adapterCall.did.token = adapterCall.cacheBefore.token
              /\ CacheUntouched
        /\ ~CacheWasFresh =>
              /\ adapterCall.did.requests = <<"/auth/oauth2/token">>
              /\ InRange200(adapterCall.tokenResponse.status) => StoredAndReturned

\* C22, amended: _get_access_token returns the cached token without a
\* request exactly when a token is cached and has not expired.  Otherwise,
\* without client_id or client_secret it raises PaymentError and sends no
\* request; with them it sends one request for a token and, on a 2xx answer
\* whose expires_in is a number or absent, stores the token with the expiry
\* now + expires_in - 300 (expires_in 3600 by default) and returns it; on a
\* 2xx answer whose expires_in is null it stores the token, leaves the expiry
\* as it was and raises TypeError; on another answer it raises PaymentError
\* and leaves the cache as it was.
C22_LazyRefresh ==
    TokenAsked =>
        /\ CacheWasFresh =>
              /\ adapterCall.did.requests = <<>>
              /\ adapterCall.did.raised = None
              /\ adapterCall.did.token = adapterCall.cacheBefore.token
              /\ CacheUntouched
        /\ (~CacheWasFresh /\ ~HasCredentials) =>
              /\ adapterCall.did.requests = <<>>
              /\ adapterCall.did.raised = "PaymentError"
              /\ CacheUntouched
        /\ (~CacheWasFresh /\ HasCredentials) =>
              /\ adapterCall.did.requests = <<"/auth/oauth2/token">>
              /\ (/\ InRange200(adapterCall.tokenResponse.status)
                  /\ adapterCall.tokenResponse.expires_in.type # "NoneType") =>
                    StoredAndReturned
              /\ (/\ InRange200(adapterCall.tokenResponse.status)
                  /\ adapterCall.tokenResponse.expires_in.type = "NoneType") =>
                    /\ adapterCall.did.raised = "TypeError"
                    /\ accessToken = Get(adapterCall.tokenResponse.access_token)
                    /\ tokenExpiry = adapterCall.cacheBefore.expiry
              /\ ~InRange200(adapterCall.tokenResponse.status) =>
                    /\ adapterCall.did.raised = "PaymentError"
                    /\ adapterCall.did.status_code = adapterCall.tokenResponse.status
                    /\ CacheUntouched

\* a cached token had expired, and the call fetched and stored another
C22_Witness ==
    /\ TokenAsked
    /\ Truthy(adapterCall.cacheBefore.token)
    /\ adapterCall.cacheBefore.expiry.set
    /\ adapterCall.at >= adapterCall.cacheBefore.expiry.at
    /\ adapterCall.tokenResponse.expires_in = Number(300)
    /\ StoredAndReturned

\* a cached token was returned without a request
CachedTokenReturned ==
    /\ TokenAsked
    /\ CacheWasFresh
    /\ adapterCall.did.requests = <<>>

\* the pair a call read was as __init__ left it
BothUnset(saw) ==
    /\ saw.token = PyNone
    /\ ~saw.expiry.set
    /\ saw.tokenBy = 0
    /\ saw.expiryBy = 0

\* the pair a call read was written, token and expiry, by one refresh
BothOfOneRefresh(saw) ==
    /\ saw.tokenBy # 0
    /\ saw.tokenBy = saw.expiryBy
    /\ saw.expiry.set

\* C23 as stated: under every interleaving of the calls of
\* _get_access_token on one adapter, the pair of token and expiry that a
\* call reads is as __init__ left it or was written, both parts, by one
\* refresh.
C23_PairIsWhole ==
    \A c \in Callers :
        callers[c].pc # "idle" =>
            BothUnset(callers[c].saw) \/ BothOfOneRefresh(callers[c].saw)

\* as long as no refresh has failed between storing the token and storing
\* the expiry, the pair read is whole, and so is the pair in the cache
WholeUnlessARefreshFailed ==
    ~writtenBy.failed =>
        /\ C23_PairIsWhole
        /\ writtenBy.token = writtenBy.expiry

\* two refreshes ran at once, both were completed, and a third call read the
\* pair of the later one
LaterRefreshOverwrites ==
    \E c \in Callers :
        /\ callers[c].pc = "done"
        /\ callers[c].saw.tokenBy = 2
        /\ callers[c].saw.expiryBy = 2
        /\ \E a, b \in Callers \ {c} :
              /\ a # b
              /\ callers[a].pc = "done" /\ callers[b].pc = "done"
              /\ BothUnset(callers[a].saw) /\ BothUnset(callers[b].saw)

HeadersAsked == adapterCall.op = "get_headers"

\* authorized headers were asked of AirtelMoneyAdapter, no good token was
\* cached, and the credentials were missing or the token endpoint refused
AcquisitionFailed ==
    /\ HeadersAsked
    /\ adapterCall.adapter = "AirtelMoneyAdapter"
    /\ adapterCall.authorization
    /\ ~CacheWasFresh
    /\ ~HasCredentials \/ ~InRange200(adapterCall.tokenResponse.status)

\* C24 as stated: when the credentials are missing or the token endpoint
\* answers outside 200..299, building authorized headers raises an
\* Authentication error and returns no headers.
C24_AuthenticationError ==
    AcquisitionFailed =>
        /\ adapterCall.did.raised = "AuthenticationError"
        /\ adapterCall.did.headers = NoHeaderMapping

\* C24, amended: when the credentials are missing or the token endpoint
\* answers outside 200..299, get_headers of AirtelMoneyAdapter raises
\* PaymentError (with the status of the answer, if there was one), returns
\* no headers and leaves the cache as it was, and a send_payment stopped so
\* sends no payment request; get_headers of SemoaAdapter acquires nothing:
\* it sends no request and returns the Bearer of whatever token the config
\* holds, None included.
C24_NoHeadersWithoutToken ==
    /\ AcquisitionFailed =>
          /\ adapterCall.did.raised = "PaymentError"
          /\ adapterCall.did.status_code =
                (IF HasCredentials THEN adapterCall.tokenResponse.status ELSE 0)
          /\ adapterCall.did.headers = NoHeaderMapping
          /\ adapterCall.did.requests =
                (IF HasCredentials THEN <<"/auth/oauth2/token">> ELSE <<>>)
          /\ CacheUntouched
    /\ (/\ Sent
        /\ adapterCall.adapter = "AirtelMoneyAdapter"
        /\ \/ ~HasCredentials
           \/ /\ Asks(adapterCall.did.requests, "/auth/oauth2/token")
              /\ ~InRange200(adapterCall.tokenResponse.status)) =>
          /\ adapterCall.did.raised # None
          /\ ~Asks(adapterCall.did.requests, "/merchant/v1/payments/")
    /\ (HeadersAsked /\ adapterCall.adapter = "SemoaAdapter") =>
          /\ adapterCall.did.requests = <<>>
          /\ (adapterCall.authorization /\ adapterCall.token.type # "absent") =>
                /\ adapterCall.did.raised = None
                /\ adapterCall.did.headers = Headers(Bearer(adapterCall.token))

\* a cached token had expired and the token endpoint refused another
C24_Witness ==
    /\ AcquisitionFailed
    /\ HasCredentials
    /\ Truthy(adapterCall.cacheBefore.token)
    /\ adapterCall.tokenResponse.status = 400
    /\ adapterCall.did.raised = "PaymentError"

\* authorized headers were built with no token: the token endpoint answered
\* with success and a body without access_token
BearerNone ==
    /\ HeadersAsked
    /\ adapterCall.adapter = "AirtelMoneyAdapter"
    /\ adapterCall.did.raised = None
    /\ adapterCall.did.headers.Authorization.chars = Bearer(PyNone).chars

\* a method of the HTTP client was called
ClientCalled == adapterCall.op = "_make_request"

\* C25 as stated: a call of get, post, put, delete or patch sends one
\* request; a failure of the transport, a timeout included, reaches the
\* caller as NetworkError and an answer outside 200..299 as an APIError, each
\* after that one request.
C25_OneRequestThenTheError ==
    ClientCalled =>
        /\ Len(adapterCall.did.requests) = 1
        /\ adapterCall.transport \in {"ClientError", "TimeoutError"} =>
              adapterCall.did.raised = "NetworkError"
        /\ (/\ adapterCall.transport = "answered"
            /\ ~InRange200(adapterCall.response.status)) =>
              /\ adapterCall.did.raised \in {"APIError", "RateLimitError"}
              /\ adapterCall.did.status_code = adapterCall.response.status

\* C25 but for the timeout: one request for every method, NetworkError for
\* a ClientError, APIError or its subclass RateLimitError for an answer
\* outside 200..299, the body for an answer inside it
OneRequestPerCall ==
    ClientCalled =>
        /\ Len(adapterCall.did.requests) = 1
        /\ adapterCall.transport = "ClientError" =>
              adapterCall.did.raised = "NetworkError"
        /\ (/\ adapterCall.transport = "answered"
            /\ ~InRange200(adapterCall.response.status)) =>
              /\ adapterCall.did.raised \in {"APIError", "RateLimitError"}
              /\ adapterCall.did.status_code = adapterCall.response.status
              /\ adapterCall.did.body
        /\ (/\ adapterCall.transport = "answered"
            /\ InRange200(adapterCall.response.status)) =>
              adapterCall.did.raised = None

\* a timeout leaves _make_request as TimeoutError
TimeoutEscapes ==
    /\ ClientCalled
    /\ adapterCall.transport = "TimeoutError"
    /\ adapterCall.did.raised = "TimeoutError"


\* ------------------------------------------------------------------------
\* Properties of the session of a request (HttpSpec)
\* ------------------------------------------------------------------------

\* C26: the session opened for a request is closed when the request ends,
\* whether it ends by returning the body or by an error (429, another
\* status outside 200..299, a failure of the network, a body that cannot be
\* decoded); a session is open only for a call that is inside its block, so
\* once every call has ended no session is open.
C26_SessionsAreScoped ==
    /\ \A r \in Requests :
          inFlight[r].pc \in {"idle", "done"} => r \notin sessions
    /\ \A r \in sessions : inFlight[r].pc \in {"session", "leaving"}

\* three calls have ended, one by the error for 429, one by NetworkError, one
\* by the error for an undecodable body, and no session is open
C26_Witness ==
    /\ \A r \in Requests : inFlight[r].pc = "done"
    /\ \E r \in Requests : /\ inFlight[r].transport = "answered"
                           /\ inFlight[r].status = 429
                           /\ inFlight[r].raised = "RateLimitError"
    /\ \E r \in Requests : /\ inFlight[r].transport = "ClientError"
                           /\ inFlight[r].raised = "NetworkError"
    /\ \E r \in Requests : /\ inFlight[r].transport = "JSONDecodeError"
                           /\ inFlight[r].raised = "APIError"
    /\ sessions = {}

\* two sessions are open at once: the client shares no session between calls
TwoSessionsOpen == Cardinality(sessions) >= 2


\* ------------------------------------------------------------------------
\* Properties of a webhook as received (ContractSpec)
\* ------------------------------------------------------------------------

\* validate_webhook returns true for the body as it was received
ValidAsReceived ==
    ValidateWebhook(adapterCall.adapter, adapterCall.cfg, adapterCall.raw_body,
                    adapterCall.headers) = [raised |-> None, value |-> TRUE]

\* C27 as stated: a webhook for whose body, as received, validate_webhook
\* returns true is accepted by parse_webhook when given the decoded payload
\* and the same headers, whatever the order of the keys and the whitespace
\* of the body.
C27_ValidBytesAreAccepted ==
    (Parsed /\ ValidAsReceived) => adapterCall.did.validated = "True"

\* parse_webhook accepts what validate_webhook accepts when the sender wrote
\* the body as json.dumps(payload, separators=(",", ":"), sort_keys=True)
ValidCanonicalBytesAreAccepted ==
    (/\ Parsed
     /\ ValidAsReceived
     /\ adapterCall.raw_body = Canonical(adapterCall.payload)) =>
        adapterCall.did.validated = "True"

\* a body with a space after its separators carries the sender's signature
\* of its bytes, and parse_webhook raises PaymentError
ValidBytesRejected ==
    /\ Parsed
    /\ ValidAsReceived
    /\ adapterCall.raw_body = Serialize(adapterCall.payload, "spaced")
    /\ adapterCall.did.raised = "PaymentError"
    /\ adapterCall.did.validated = "False"


\* ------------------------------------------------------------------------
\* Properties of Paystack's refund (ContractSpec)
\* ------------------------------------------------------------------------

\* PaystackAdapter.refund returned a PaymentResponse
PaystackRefunded ==
    /\ adapterCall.op = "refund"
    /\ adapterCall.adapter = "PaystackAdapter"
    /\ adapterCall.did.raised = None

\* the response carries an amount, in minor units
CarriesAnAmount ==
    adapterCall.response.amount.type = "int" /\ adapterCall.response.amount.n # 0

\* C29 as stated: the amount Paystack's refund returns is in major units:
\* N / 100 when the response carries N minor units, and the amount the
\* caller asked for, not a hundredth of it, when the response carries none.
C29_RefundInMajorUnits ==
    PaystackRefunded =>
        LET returned == adapterCall.did.returned.amount
        IN /\ CarriesAnAmount =>
                 /\ returned.hundredths \in 0..99
                 /\ 100 * returned.whole + returned.hundredths
                       = adapterCall.response.amount.n
           /\ (/\ adapterCall.response.amount.type # "int"
               /\ adapterCall.amount.type = "int") =>
                 returned = Major(adapterCall.amount.n, 0)

\* the amount of the response, when it carries one, comes back divided by
\* 100; with no amount in the response and none asked for, 0 comes back
RefundOfTheResponseInMajorUnits ==
    PaystackRefunded =>
        LET returned == adapterCall.did.returned.amount
        IN /\ CarriesAnAmount =>
                 /\ returned.hundredths \in 0..99
                 /\ 100 * returned.whole + returned.hundredths
                       = adapterCall.response.amount.n
           /\ (~CarriesAnAmount /\ adapterCall.amount.type # "int") =>
                 returned = Major(0, 0)

\* a refund of 50 whose response carries no amount returns 0.50
RefundOfAHundredth ==
    /\ PaystackRefunded
    /\ adapterCall.amount = Number(50)
    /\ adapterCall.response.amount.type # "int"
    /\ adapterCall.did.returned.amount = Major(0, 50)


\* ------------------------------------------------------------------------
\* Properties of a failed fetch of Airtel's token (AdapterSpec)
\* ------------------------------------------------------------------------

\* _get_access_token had no fresh token and could fetch none: the
\* credentials are missing, or the answer is outside 200..299
TokenFetchFailed ==
    /\ TokenAsked
    /\ ~CacheWasFresh
    /\ ~HasCredentials \/ ~InRange200(adapterCall.tokenResponse.status)

\* C30: a fetch of the token that fails for want of credentials or for an
\* answer outside 200..299 raises PaymentError and leaves _access_token and
\* _token_expiry as they were before the call, so the call after it meets
\* the same cache.
C30_FailedFetchKeepsTheCache ==
    TokenFetchFailed =>
        /\ adapterCall.did.raised = "PaymentError"
        /\ adapterCall.did.token = PyNone
        /\ CacheUntouched

\* a token had been cached and had expired, the fetch of a new one was
\* answered outside 200..299, and the adapter still holds the old pair
C30_Witness ==
    /\ TokenFetchFailed
    /\ HasCredentials
    /\ Truthy(adapterCall.cacheBefore.token)
    /\ adapterCall.cacheBefore.expiry.set
    /\ adapterCall.did.requests = <<"/auth/oauth2/token">>
    /\ adapterCall.did.status_code = adapterCall.tokenResponse.status
    /\ accessToken = adapterCall.cacheBefore.token
    /\ tokenExpiry = adapterCall.cacheBefore.expiry

\* a fetch fails for want of credentials before any request is sent
FailedWithoutARequest ==
    /\ TokenFetchFailed
    /\ ~HasCredentials
    /\ adapterCall.did.requests = <<>>

====
